---- MODULE Spec2Model ----
(***************************************************************************)
(* A model of the chess rules engine (game.rs, game/board.rs,              *)
(* game/board/position.rs, game/castling.rs, game/piece.rs) and of the     *)
(* search in ai.rs.  A Game is a record; Game::move, Game::promote,        *)
(* Game::moves, Game::attacks and Game::status are operators over it,      *)
(* translated arm by arm from the source.  The state machine plays games   *)
(* from Game::new() as Tui::run does, click by click: a tile is selected,  *)
(* then one of its destinations, then the piece of a promotion.  It plays  *)
(* a few fixed lines that bring about castling, en passant, promotion,     *)
(* mate and stalemate, each followed by every move Game::moves offers,     *)
(* for a bounded number of plies.                                          *)
(***************************************************************************)
EXTENDS Integers, Sequences, FiniteSets, TLC

VARIABLES
    game,              \* the current Game value
    offered,           \* what Game::moves yields for `game`, item by item
    selected_tile,     \* the square whose moves select_tile has kept, or NoPos
    selected_promotion,  \* <<from, to>> of the promotion being chosen, or NoSelection
    debug_assertions,  \* the build: cfg!(debug_assertions)
    panic,             \* "none", or the message of the failed assertion
    line,              \* which line of play is followed
    ply,               \* moves of the line played so far
    free,              \* moves played after the line
    last,              \* the transition that produced `game`
    has_moved,         \* history: squares holding a piece that has moved
    events,            \* history: <<color, "king"|"queenside"|"kingside">>
    chosen,            \* the last answer of ai::choose, or NoChoice
    misuse,            \* the last call outside the REQUIRES clauses, or NoMisuse
    army               \* the number of pieces of each colour, type by type

vars == <<game, offered, selected_tile, selected_promotion, debug_assertions, panic,
          line, ply, free, last, has_moved, events, chosen, misuse, army>>

----------------------------------------------------------------------------
(* Bounds                                                                  *)

\* plies of free play after a line of play
MaxFree == 1

\* the deepest search asked of ai::choose
MaxDepth == 1

\* ai::choose is asked on boards of at most this many pieces
MaxPieces == 4

\* material estimates compared with one another run from -MaxEstimate to it
MaxEstimate == 3

\* pieces taken from the board once the play has come to its end
MaxTaken == 1

\* promoted pieces the other colour holds when a pawn is promoted, once the
\* play has come to its end
MaxPromoted == 1

----------------------------------------------------------------------------
(* game/piece.rs                                                           *)

PieceColor == {"White", "Black"}

PieceType == {"Pawn", "Knight", "Bishop", "Rook", "Queen", "King"}

\* impl Not for PieceColor
Not(color) == IF color = "White" THEN "Black" ELSE "White"

\* mutant: the ranks of the two colours exchanged
pawn_starting_rank_swapped(color) == IF color = "White" THEN 6 ELSE 1

pawn_starting_rank(color) == IF color = "White" THEN 1 ELSE 6

piece_starting_rank(color) == IF color = "White" THEN 0 ELSE 7

Piece(color, piece) == [color |-> color, piece |-> piece]

\* Option<Piece>::None
None == [color |-> "None", piece |-> "None"]

----------------------------------------------------------------------------
(* game/board/position.rs                                                  *)

\* Option<Position>::None
NoPos == 64

Positions == 0 .. 63

\* Position::new: rank << 3 | file
New(rank, file) == rank * 8 + file

Rank(p) == p \div 8

File(p) == p % 8

AbsDiff(a, b) == IF a < b THEN b - a ELSE a - b

\* Movement for Position and for Option<Position>
Up(p) == IF p # NoPos /\ Rank(p) < 7 THEN p + 8 ELSE NoPos

Down(p) == IF p # NoPos /\ Rank(p) > 0 THEN p - 8 ELSE NoPos

Left(p) == IF p # NoPos /\ File(p) > 0 THEN p - 1 ELSE NoPos

Right(p) == IF p # NoPos /\ File(p) < 7 THEN p + 1 ELSE NoPos

PawnStep(p, color) == IF color = "White" THEN Up(p) ELSE Down(p)

\* the closures handed to saturate, by name
Step(p, dir) ==
    CASE dir = "up" -> Up(p)
      [] dir = "left" -> Left(p)
      [] dir = "down" -> Down(p)
      [] dir = "right" -> Right(p)
      [] dir = "up_left" -> Left(Up(p))
      [] dir = "up_right" -> Right(Up(p))
      [] dir = "down_left" -> Left(Down(p))
      [] dir = "down_right" -> Right(Down(p))

----------------------------------------------------------------------------
(* game/board.rs                                                           *)

PIECE_TYPES == <<"Rook", "Knight", "Bishop", "Queen", "King", "Bishop", "Knight", "Rook">>

BoardNew ==
    [p \in Positions |->
        CASE Rank(p) = 7 -> Piece("Black", PIECE_TYPES[File(p) + 1])
          [] Rank(p) = 6 -> Piece("Black", "Pawn")
          [] Rank(p) = 1 -> Piece("White", "Pawn")
          [] Rank(p) = 0 -> Piece("White", PIECE_TYPES[File(p) + 1])
          [] OTHER -> None]

Get(board, p) == board[p]

IsVacant(board, p) == board[p] = None

SquareSeq == [i \in 1 .. 64 |-> i - 1]

\* Board::iter: the squares holding a piece of `color`, by ascending index
Iter(board, color) == SelectSeq(SquareSeq, LAMBDA p : board[p].color = color)

\* Board::position_of: the first square holding `piece`
PositionOf(board, piece) ==
    IF \E p \in Positions : board[p] = piece
    THEN CHOOSE p \in Positions :
            /\ board[p] = piece
            /\ \A q \in Positions : board[q] = piece => p <= q
    ELSE NoPos

IsEnPassantShape(board, from, to) ==
    /\ board[from].piece = "Pawn"
    /\ File(from) # File(to)
    /\ board[to] = None

IsCastlingShape(board, from, to) ==
    /\ board[from].piece = "King"
    /\ AbsDiff(File(from), File(to)) = 2

CastlingRookFrom(from, to) ==
    IF File(to) < File(from) THEN Left(Left(to)) ELSE Right(to)

\* mutant: the rook is put on the king's square when castling kingside
CastlingRookToKingSquare(from, to) ==
    IF File(to) < File(from) THEN Right(to) ELSE to

CastlingRookTo(from, to) ==
    IF File(to) < File(from) THEN Right(to) ELSE Left(to)

\* Board::move: the message of the expectation or debug assertion that
\* fails, or "none"
BoardMovePanic(board, from, to, debug) ==
    CASE board[from] = None -> "Board::r#move precondition"
      [] /\ board[from] # None
         /\ IsEnPassantShape(board, from, to)
         /\ debug
         /\ board[New(Rank(from), File(to))] # Piece(Not(board[from].color), "Pawn")
            -> "en passant assertion"
      [] /\ board[from] # None
         /\ IsCastlingShape(board, from, to)
         /\ \/ CastlingRookFrom(from, to) = NoPos
            \/ CastlingRookTo(from, to) = NoPos
            \/ /\ debug
               /\ board[CastlingRookFrom(from, to)] # Piece(board[from].color, "Rook")
            -> "Board::move castling precondition"
      [] OTHER -> "none"

\* mutant: the piece is moved and nothing else is touched
BoardMovePlain(board, from, to) == [board EXCEPT ![from] = None, ![to] = board[from]]

\* Board::move, when it does not fail
BoardMove(board, from, to) ==
    LET piece == board[from]
        moved == [board EXCEPT ![from] = None, ![to] = piece]
        taken == IF IsEnPassantShape(board, from, to)
                 THEN [moved EXCEPT ![New(Rank(from), File(to))] = None]
                 ELSE moved
    IN  IF IsCastlingShape(board, from, to)
        THEN LET rook_from == CastlingRookFrom(from, to)
                 rook_to == CastlingRookTo(from, to)
             IN  [[taken EXCEPT ![rook_from] = None] EXCEPT ![rook_to] = taken[rook_from]]
        ELSE taken

\* mutant: the pawn stays on its square when it promotes
BoardPromoteKeepsPawn(board, from, to, piece_type) ==
    [board EXCEPT ![to] = Piece(board[from].color, piece_type)]

\* mutant: the pawn reaches the last rank and stays a pawn
BoardPromoteAsPawn(board, from, to, piece_type) ==
    [board EXCEPT ![from] = None, ![to] = board[from]]

\* Board::promote
BoardPromote(board, from, to, piece_type) ==
    [board EXCEPT ![from] = None, ![to] = Piece(board[from].color, piece_type)]

BoardPromotePanic(board, from, to, debug) ==
    CASE board[from] = None -> "Board::promote precondition"
      [] board[from] # None /\ debug /\ board[from].piece # "Pawn" -> "promote assertion"
      [] OTHER -> "none"

----------------------------------------------------------------------------
(* game/castling.rs                                                        *)

KingHasMoved == [tag |-> "KingHasMoved"]

KingHasNotMoved(queenside, kingside) ==
    [tag |-> "KingHasNotMoved",
     queenside_rook_has_not_moved |-> queenside,
     kingside_rook_has_not_moved |-> kingside]

CastlingInfoNew == KingHasNotMoved(TRUE, TRUE)

\* mutant: the move of the king is not recorded
move_king_noop(info) == info

move_king(info) == KingHasMoved

\* mutant: the queen's rook leaving home takes both rights away
move_queenside_rook_both(info) ==
    IF info.tag = "KingHasNotMoved"
    THEN [info EXCEPT !.queenside_rook_has_not_moved = FALSE,
                      !.kingside_rook_has_not_moved = FALSE]
    ELSE info

move_queenside_rook(info) ==
    IF info.tag = "KingHasNotMoved"
    THEN [info EXCEPT !.queenside_rook_has_not_moved = FALSE]
    ELSE info

\* mutant: the king's rook leaving home is not recorded
move_kingside_rook_noop(info) == info

move_kingside_rook(info) ==
    IF info.tag = "KingHasNotMoved"
    THEN [info EXCEPT !.kingside_rook_has_not_moved = FALSE]
    ELSE info

can_castle_queenside(info) ==
    info.tag = "KingHasNotMoved" /\ info.queenside_rook_has_not_moved

can_castle_kingside(info) ==
    info.tag = "KingHasNotMoved" /\ info.kingside_rook_has_not_moved

CastlingNew == [White |-> CastlingInfoNew, Black |-> CastlingInfoNew]

----------------------------------------------------------------------------
(* game.rs                                                                 *)

PROMOTIONS == <<"Queen", "Rook", "Bishop", "Knight">>

GameNew ==
    [turn |-> "White",
     board |-> BoardNew,
     just_advanced_two |-> NoPos,
     castling |-> CastlingNew]

\* Game::is_promotion
IsPromotion(g, from, to) ==
    /\ g.board[from].piece = "Pawn"
    /\ \/ g.board[from].color = "White" /\ Rank(to) = 7
       \/ g.board[from].color = "Black" /\ Rank(to) = 0

\* the castling update of Game::move
CastlingAfter(castling, piece, from) ==
    IF Rank(from) = piece_starting_rank(piece.color)
    THEN CASE piece.piece = "King" /\ File(from) = 4 ->
                [castling EXCEPT ![piece.color] = move_king(@)]
           [] piece.piece = "Rook" /\ File(from) = 0 ->
                [castling EXCEPT ![piece.color] = move_queenside_rook(@)]
           [] piece.piece = "Rook" /\ File(from) = 7 ->
                [castling EXCEPT ![piece.color] = move_kingside_rook(@)]
           [] OTHER -> castling
    ELSE castling

\* mutant: a move of any piece over two ranks sets the marker
JustAdvancedTwoAnyPiece(piece, from, to) ==
    IF AbsDiff(Rank(from), Rank(to)) = 2 THEN to ELSE NoPos

\* mutant: any pawn move sets the marker
JustAdvancedTwoAnyStep(piece, from, to) ==
    IF piece.piece = "Pawn" THEN to ELSE NoPos

\* mutant: the marker is the square the pawn has left
JustAdvancedTwoDeparture(piece, from, to) ==
    IF piece.piece = "Pawn" /\ AbsDiff(Rank(from), Rank(to)) = 2 THEN from ELSE NoPos

\* the en passant marker after Game::move
JustAdvancedTwo(piece, from, to) ==
    IF piece.piece = "Pawn" /\ AbsDiff(Rank(from), Rank(to)) = 2 THEN to ELSE NoPos

\* Game::move: the message of the failure, or "none"
GameMovePanic(g, from, to, debug) ==
    CASE debug /\ IsPromotion(g, from, to) -> "Game::move on a promotion"
      [] ~(debug /\ IsPromotion(g, from, to)) /\ g.board[from] = None
            -> "Game::move precondition"
      [] OTHER -> BoardMovePanic(g.board, from, to, debug)

\* Game::move, when it does not fail
GameMove(g, from, to) ==
    LET piece == g.board[from]
    IN  [turn |-> Not(g.turn),
         board |-> BoardMove(g.board, from, to),
         just_advanced_two |-> JustAdvancedTwo(piece, from, to),
         castling |-> CastlingAfter(g.castling, piece, from)]

\* Game::promote: the message of the failure, or "none"
GamePromotePanic(g, from, to, piece_type, debug) ==
    CASE debug /\ ~IsPromotion(g, from, to) -> "Game::promote on a non-promotion"
      [] debug /\ IsPromotion(g, from, to)
               /\ ~(\E i \in 1 .. Len(PROMOTIONS) : PROMOTIONS[i] = piece_type)
            -> "Game::promote piece type"
      [] OTHER -> BoardPromotePanic(g.board, from, to, debug)

\* mutant: a promotion does not pass the turn
GamePromoteKeepsTurn(g, from, to, piece_type) ==
    [turn |-> g.turn,
     board |-> BoardPromote(g.board, from, to, piece_type),
     just_advanced_two |-> NoPos,
     castling |-> g.castling]

\* Game::promote, when it does not fail
GamePromote(g, from, to, piece_type) ==
    [turn |-> Not(g.turn),
     board |-> BoardPromote(g.board, from, to, piece_type),
     just_advanced_two |-> NoPos,
     castling |-> g.castling]

\* a walk over the board takes at most this many iterations
MaxWalk == 7

\* Ordering as i8: Less -1, Equal 0, Greater 1
Ordering(a, b) == IF a < b THEN -1 ELSE IF a > b THEN 1 ELSE 0

\* `rank << 3 | file` in u8, for a rank in 0 .. 255 and a file in 0 .. 8 or 255
ShiftOr(rank, file) ==
    IF file < 8 THEN ((rank * 8) % 256) + file
    ELSE IF file = 8 THEN ((rank * 8) % 256) + (IF rank % 2 = 1 THEN 0 ELSE 8)
    ELSE 255

\* the loop of Game::sliding_attacks, iteration by iteration, `position`
\* being the byte of the Position: d_rank and d_file are fixed before the
\* loop; Position::new asserts in a debug build that the rank and the file
\* are below 8, and in a release build makes the byte of whatever it is
\* given, which Board::is_vacant then looks up among the 64 squares. How the
\* walk ends, and after how many iterations
RECURSIVE SlidingWalk(_, _, _, _, _, _, _)
SlidingWalk(board, position, d_rank, d_file, target, debug, steps) ==
    LET rank == ((position \div 8) + d_rank) % 256
        file == ((position % 8) + d_file) % 256
        next == ShiftOr(rank, file)
    IN  IF debug /\ rank >= 8
        THEN [end |-> "assertion failed: rank < 8", steps |-> steps]
        ELSE IF debug /\ file >= 8
        THEN [end |-> "assertion failed: file < 8", steps |-> steps]
        ELSE IF next = target
        THEN [end |-> "target", steps |-> steps]
        ELSE IF next >= 64
        THEN [end |-> "index out of bounds", steps |-> steps]
        ELSE IF board[next] # None
        THEN [end |-> "blocker", steps |-> steps]
        ELSE SlidingWalk(board, next, d_rank, d_file, target, debug, steps + 1)

\* Game::sliding_attacks from `position` towards `target`: how it ends
SlidingEnd(board, position, target, debug) ==
    SlidingWalk(board, position,
                Ordering(Rank(target), Rank(position)),
                Ordering(File(target), File(position)),
                target, debug, 1)

\* Game::sliding_attacks: the message of its failure, or "none"
SlidingAttacksPanic(board, position, target, debug) ==
    IF SlidingEnd(board, position, target, debug).end \in {"target", "blocker"}
    THEN "none"
    ELSE SlidingEnd(board, position, target, debug).end

\* Game::sliding_attacks, when it does not fail: Game::attacks asks it of
\* squares in line only, where the walk stays on the board in both builds
SlidingAttacks(board, position, target) ==
    SlidingEnd(board, position, target, FALSE).end = "target"

\* mutant: pawns attack nothing
PieceAttacksNoPawn(board, position, target) ==
    LET piece == board[position]
        dr == AbsDiff(Rank(position), Rank(target))
        df == AbsDiff(File(position), File(target))
    IN  CASE piece.piece = "Pawn" -> FALSE
          [] piece.piece = "Knight" -> (dr = 1 /\ df = 2) \/ (dr = 2 /\ df = 1)
          [] piece.piece = "Bishop" -> dr = df /\ SlidingAttacks(board, position, target)
          [] piece.piece = "Rook" ->
                /\ Rank(position) = Rank(target) \/ File(position) = File(target)
                /\ SlidingAttacks(board, position, target)
          [] piece.piece = "Queen" ->
                /\ dr = df \/ Rank(position) = Rank(target) \/ File(position) = File(target)
                /\ SlidingAttacks(board, position, target)
          [] piece.piece = "King" -> dr <= 1 /\ df <= 1

\* one arm of the match in Game::attacks
PieceAttacks(board, position, target) ==
    LET piece == board[position]
        dr == AbsDiff(Rank(position), Rank(target))
        df == AbsDiff(File(position), File(target))
    IN  CASE piece.piece = "Pawn" ->
                LET pawn_move == PawnStep(position, piece.color)
                IN  /\ pawn_move # NoPos
                    /\ Rank(pawn_move) = Rank(target)
                    /\ AbsDiff(File(pawn_move), File(target)) = 1
          [] piece.piece = "Knight" -> (dr = 1 /\ df = 2) \/ (dr = 2 /\ df = 1)
          [] piece.piece = "Bishop" -> dr = df /\ SlidingAttacks(board, position, target)
          [] piece.piece = "Rook" ->
                /\ Rank(position) = Rank(target) \/ File(position) = File(target)
                /\ SlidingAttacks(board, position, target)
          [] piece.piece = "Queen" ->
                /\ dr = df \/ Rank(position) = Rank(target) \/ File(position) = File(target)
                /\ SlidingAttacks(board, position, target)
          [] piece.piece = "King" -> dr <= 1 /\ df <= 1

\* Game::attacks: the message of the expectation that fails, or "none"; the
\* pieces are visited in the order of Board::iter until one attacks `target`
AttacksPanic(g, color, target) ==
    IF \E position \in Positions :
          /\ g.board[position] = Piece(color, "Pawn")
          /\ PawnStep(position, color) = NoPos
          /\ \A earlier \in Positions :
                earlier < position /\ g.board[earlier].color = color
                   => ~PieceAttacks(g.board, earlier, target)
    THEN "pawn not on last rank"
    ELSE "none"

\* Game::attacks
Attacks(g, color, target) ==
    \E position \in Positions :
        /\ g.board[position].color = color
        /\ PieceAttacks(g.board, position, target)

\* mutant: the safety filter lets every candidate through
DoesNotCauseCheckAlways(g, from, to, king_position, debug) == TRUE

\* the closure does_not_cause_check of Game::moves
DoesNotCauseCheck(g, from, to, king_position, debug) ==
    LET after_move == IF debug /\ IsPromotion(g, from, to)
                      THEN GamePromote(g, from, to, "Queen")
                      ELSE GameMove(g, from, to)
    IN  ~Attacks(after_move, Not(g.turn), king_position)

\* the king's own does_not_cause_check
KingDoesNotCauseCheck(g, from, to) ==
    ~Attacks(GameMove(g, from, to), Not(g.turn), to)

\* the closure saturate of Game::moves
RECURSIVE Saturate(_, _, _, _, _, _)
Saturate(g, from, at, dir, king_position, debug) ==
    LET to == Step(at, dir)
    IN  IF to = NoPos THEN << >>
        ELSE IF g.board[to] # None
        THEN IF /\ g.board[to].color # g.board[from].color
                /\ DoesNotCauseCheck(g, from, to, king_position, debug)
             THEN <<to>>
             ELSE << >>
        ELSE (IF DoesNotCauseCheck(g, from, to, king_position, debug)
              THEN <<to>> ELSE << >>)
             \o Saturate(g, from, to, dir, king_position, debug)

RECURSIVE SaturateAll(_, _, _, _, _)
SaturateAll(g, from, dirs, king_position, debug) ==
    IF dirs = << >> THEN << >>
    ELSE Saturate(g, from, from, Head(dirs), king_position, debug)
         \o SaturateAll(g, from, Tail(dirs), king_position, debug)

BishopDirs == <<"up_left", "up_right", "down_left", "down_right">>

RookDirs == <<"up", "left", "down", "right">>

QueenDirs == RookDirs \o BishopDirs

\* mutant: the marker never allows a capture
EnPassantOnNever(g, color, beside) == FALSE

\* the en passant closure of the pawn arm: `beside` is from.left() or from.right()
EnPassantOn(g, color, beside) ==
    /\ g.just_advanced_two # NoPos
    /\ g.just_advanced_two = beside
    /\ g.board[g.just_advanced_two].color = Not(color)

PawnMoves(g, from, king_position, debug) ==
    LET color == g.board[from].color
        forward == PawnStep(from, color)
        forward_two == PawnStep(forward, color)
        capture_left == Left(forward)
        capture_right == Right(forward)
        Capture(to, beside) ==
            IF /\ to # NoPos
               /\ \/ g.board[to].color = Not(color)
                  \/ EnPassantOn(g, color, beside)
               /\ DoesNotCauseCheck(g, from, to, king_position, debug)
            THEN <<to>> ELSE << >>
    IN  (IF IsVacant(g.board, forward)
            /\ DoesNotCauseCheck(g, from, forward, king_position, debug)
         THEN <<forward>> ELSE << >>)
        \o (IF /\ forward_two # NoPos
               /\ Rank(from) = pawn_starting_rank(color)
               /\ IsVacant(g.board, forward)
               /\ IsVacant(g.board, forward_two)
               /\ DoesNotCauseCheck(g, from, forward_two, king_position, debug)
            THEN <<forward_two>> ELSE << >>)
        \o Capture(capture_left, Left(from))
        \o Capture(capture_right, Right(from))

KnightTargets(from) ==
    << Left(Up(Up(from))), Right(Up(Up(from))),
       Up(Left(Left(from))), Down(Left(Left(from))),
       Left(Down(Down(from))), Right(Down(Down(from))),
       Up(Right(Right(from))), Down(Right(Right(from))) >>

KnightMoves(g, from, king_position, debug) ==
    SelectSeq(KnightTargets(from),
              LAMBDA to : /\ to # NoPos
                          /\ g.board[to].color # g.board[from].color
                          /\ DoesNotCauseCheck(g, from, to, king_position, debug))

KingTargets(from) ==
    << Up(from), Right(Up(from)), Right(from), Right(Down(from)),
       Down(from), Left(Down(from)), Left(from), Left(Up(from)) >>

CastleQueenside(g, from) ==
    LET color == g.board[from].color
        left == Left(from)
        left_left == Left(left)
        left_left_left == Left(left_left)
    IN  IF /\ can_castle_queenside(g.castling[color])
           /\ left_left_left # NoPos
           /\ IsVacant(g.board, left)
           /\ IsVacant(g.board, left_left)
           /\ IsVacant(g.board, left_left_left)
           /\ ~Attacks(g, Not(color), from)
           /\ ~Attacks(g, Not(color), left)
           /\ ~Attacks(g, Not(color), left_left)
        THEN <<left_left>> ELSE << >>

\* mutant: the squares the king passes are not tested for attacks
CastleKingsideThroughCheck(g, from) ==
    LET color == g.board[from].color
        right == Right(from)
        right_right == Right(right)
    IN  IF /\ can_castle_kingside(g.castling[color])
           /\ right_right # NoPos
           /\ IsVacant(g.board, right)
           /\ IsVacant(g.board, right_right)
        THEN <<right_right>> ELSE << >>

CastleKingside(g, from) ==
    LET color == g.board[from].color
        right == Right(from)
        right_right == Right(right)
    IN  IF /\ can_castle_kingside(g.castling[color])
           /\ right_right # NoPos
           /\ IsVacant(g.board, right)
           /\ IsVacant(g.board, right_right)
           /\ ~Attacks(g, Not(color), from)
           /\ ~Attacks(g, Not(color), right)
           /\ ~Attacks(g, Not(color), right_right)
        THEN <<right_right>> ELSE << >>

KingMoves(g, from) ==
    SelectSeq(KingTargets(from),
              LAMBDA to : /\ to # NoPos
                          /\ g.board[to].color # g.board[from].color
                          /\ KingDoesNotCauseCheck(g, from, to))
    \o CastleQueenside(g, from)
    \o CastleKingside(g, from)

\* the destinations Game::moves lists for the piece on `from`
MovesFrom(g, from, king_position, debug) ==
    LET piece == g.board[from].piece
    IN  CASE piece = "Pawn" -> PawnMoves(g, from, king_position, debug)
          [] piece = "Knight" -> KnightMoves(g, from, king_position, debug)
          [] piece = "Bishop" -> SaturateAll(g, from, BishopDirs, king_position, debug)
          [] piece = "Rook" -> SaturateAll(g, from, RookDirs, king_position, debug)
          [] piece = "Queen" -> SaturateAll(g, from, QueenDirs, king_position, debug)
          [] piece = "King" -> KingMoves(g, from)

\* the castling arm of the king on `from` expects a square off the board
CastlingIsOffBoard(g, from) ==
    \/ /\ can_castle_queenside(g.castling[g.board[from].color])
       /\ Left(Left(Left(from))) = NoPos
    \/ /\ can_castle_kingside(g.castling[g.board[from].color])
       /\ Right(Right(from)) = NoPos

\* the first message of `messages` that is a failure, or "none"
FirstPanic(messages) ==
    IF \E i \in 1 .. Len(messages) : messages[i] # "none"
    THEN messages[CHOOSE i \in 1 .. Len(messages) :
                     /\ messages[i] # "none"
                     /\ \A j \in 1 .. i - 1 : messages[j] = "none"]
    ELSE "none"

\* the closure does_not_cause_check of Game::moves: the message of the failure
\* of Game::promote, Game::move or Game::attacks, or "none"
DoesNotCauseCheckPanic(g, from, to, king_position, debug) ==
    IF debug /\ IsPromotion(g, from, to)
    THEN IF GamePromotePanic(g, from, to, "Queen", debug) # "none"
         THEN GamePromotePanic(g, from, to, "Queen", debug)
         ELSE AttacksPanic(GamePromote(g, from, to, "Queen"), Not(g.turn), king_position)
    ELSE IF GameMovePanic(g, from, to, debug) # "none"
         THEN GameMovePanic(g, from, to, debug)
         ELSE AttacksPanic(GameMove(g, from, to), Not(g.turn), king_position)

\* the king's own does_not_cause_check: the message of the failure, or "none"
KingDoesNotCauseCheckPanic(g, from, to, debug) ==
    IF GameMovePanic(g, from, to, debug) # "none"
    THEN GameMovePanic(g, from, to, debug)
    ELSE AttacksPanic(GameMove(g, from, to), Not(g.turn), to)

\* the closure saturate: the message of the failure, or "none"
RECURSIVE SaturatePanic(_, _, _, _, _, _)
SaturatePanic(g, from, at, dir, king_position, debug) ==
    LET to == Step(at, dir)
    IN  IF to = NoPos THEN "none"
        ELSE IF g.board[to] # None
        THEN IF g.board[to].color # g.board[from].color
             THEN DoesNotCauseCheckPanic(g, from, to, king_position, debug)
             ELSE "none"
        ELSE IF DoesNotCauseCheckPanic(g, from, to, king_position, debug) # "none"
        THEN DoesNotCauseCheckPanic(g, from, to, king_position, debug)
        ELSE SaturatePanic(g, from, to, dir, king_position, debug)

SaturateAllPanic(g, from, dirs, king_position, debug) ==
    FirstPanic([i \in 1 .. Len(dirs) |->
                   SaturatePanic(g, from, from, dirs[i], king_position, debug)])

\* one capture of the pawn arm: `to` is forward.left() or forward.right(),
\* `beside` is from.left() or from.right()
CapturePanic(g, from, to, beside, king_position, debug) ==
    IF to = NoPos THEN "none"
    ELSE IF g.board[to].color = Not(g.board[from].color)
    THEN DoesNotCauseCheckPanic(g, from, to, king_position, debug)
    ELSE IF g.just_advanced_two = NoPos \/ g.just_advanced_two # beside THEN "none"
    ELSE IF g.board[g.just_advanced_two] = None THEN "Game::just_advanced_two invariant"
    ELSE IF g.board[g.just_advanced_two].color = Not(g.board[from].color)
    THEN DoesNotCauseCheckPanic(g, from, to, king_position, debug)
    ELSE "none"

\* the pawn arm of Game::moves: the message of the failure, or "none"
PawnPanic(g, from, king_position, debug) ==
    LET color == g.board[from].color
        forward == PawnStep(from, color)
        forward_two == PawnStep(forward, color)
    IN  IF forward = NoPos THEN "pawn is never on last rank"
        ELSE FirstPanic(<<
                IF IsVacant(g.board, forward)
                THEN DoesNotCauseCheckPanic(g, from, forward, king_position, debug)
                ELSE "none",
                IF /\ forward_two # NoPos
                   /\ Rank(from) = pawn_starting_rank(color)
                   /\ IsVacant(g.board, forward)
                   /\ IsVacant(g.board, forward_two)
                THEN DoesNotCauseCheckPanic(g, from, forward_two, king_position, debug)
                ELSE "none",
                CapturePanic(g, from, Left(forward), Left(from), king_position, debug),
                CapturePanic(g, from, Right(forward), Right(from), king_position, debug) >>)

\* the knight arm of Game::moves: the message of the failure, or "none"
KnightPanic(g, from, king_position, debug) ==
    FirstPanic([i \in 1 .. Len(KnightTargets(from)) |->
                   LET to == KnightTargets(from)[i]
                   IN  IF to # NoPos /\ g.board[to].color # g.board[from].color
                       THEN DoesNotCauseCheckPanic(g, from, to, king_position, debug)
                       ELSE "none"])

\* the attack tests of a castling, made one after the other while none holds
CastlingAttacksPanic(g, color, squares) ==
    FirstPanic([i \in 1 .. Len(squares) |->
                   IF \A j \in 1 .. i - 1 :
                         /\ AttacksPanic(g, Not(color), squares[j]) = "none"
                         /\ ~Attacks(g, Not(color), squares[j])
                   THEN AttacksPanic(g, Not(color), squares[i])
                   ELSE "none"])

\* the queenside castling of the king arm: the message of the failure, or "none"
CastleQueensidePanic(g, from) ==
    LET color == g.board[from].color
        left == Left(from)
        left_left == Left(left)
        left_left_left == Left(left_left)
    IN  IF ~can_castle_queenside(g.castling[color]) THEN "none"
        ELSE IF left_left_left = NoPos THEN "castling"
        ELSE IF /\ IsVacant(g.board, left)
                /\ IsVacant(g.board, left_left)
                /\ IsVacant(g.board, left_left_left)
        THEN CastlingAttacksPanic(g, color, <<from, left, left_left>>)
        ELSE "none"

\* the kingside castling of the king arm: the message of the failure, or "none"
CastleKingsidePanic(g, from) ==
    LET color == g.board[from].color
        right == Right(from)
        right_right == Right(right)
    IN  IF ~can_castle_kingside(g.castling[color]) THEN "none"
        ELSE IF right_right = NoPos THEN "castling"
        ELSE IF IsVacant(g.board, right) /\ IsVacant(g.board, right_right)
        THEN CastlingAttacksPanic(g, color, <<from, right, right_right>>)
        ELSE "none"

\* the king arm of Game::moves: the message of the failure, or "none"
KingPanic(g, from, debug) ==
    FirstPanic([i \in 1 .. Len(KingTargets(from)) |->
                   LET to == KingTargets(from)[i]
                   IN  IF to # NoPos /\ g.board[to].color # g.board[from].color
                       THEN KingDoesNotCauseCheckPanic(g, from, to, debug)
                       ELSE "none"]
               \o << CastleQueensidePanic(g, from), CastleKingsidePanic(g, from) >>)

\* the closure Game::moves maps over the pieces, for the piece on `from`: the
\* message of the failure, or "none"
MovesFromPanic(g, from, king_position, debug) ==
    LET piece == g.board[from].piece
    IN  CASE piece = "Pawn" -> PawnPanic(g, from, king_position, debug)
          [] piece = "Knight" -> KnightPanic(g, from, king_position, debug)
          [] piece = "Bishop" -> SaturateAllPanic(g, from, BishopDirs, king_position, debug)
          [] piece = "Rook" -> SaturateAllPanic(g, from, RookDirs, king_position, debug)
          [] piece = "Queen" -> SaturateAllPanic(g, from, QueenDirs, king_position, debug)
          [] piece = "King" -> KingPanic(g, from, debug)

\* the closure Game::moves maps over the pieces, piece by piece in the order of
\* Board::iter: the message of the failure of each, or "none"
MovesPanics(g, king_position, debug) ==
    LET froms == Iter(g.board, g.turn)
    IN  [i \in 1 .. Len(froms) |-> MovesFromPanic(g, froms[i], king_position, debug)]

\* what the expectations and assertions reached from Game::moves, and from
\* Game::check, can fail on:
\* a pawn on its last rank (Position::pawn gives None, in the pawn arm for
\* the side to move and in Game::attacks for the other side), a marker that
\* is not on a pawn of the side that has just moved (the expectation of the
\* en passant closure, the assertion of Board::move), or a castling right of
\* a king too near the edge (the expectations "castling"). On a board with
\* none of the three every one of them holds: each candidate is made by
\* Game::move from a square that holds a piece, a capture onto a vacant
\* square passes the closure only beside the marker, the king steps one file
\* at most, and a hypothetical move adds no pawn to the other side
MayFail(g) ==
    \/ \E p \in Positions :
          g.board[p].piece = "Pawn" /\ PawnStep(p, g.board[p].color) = NoPos
    \/ /\ g.just_advanced_two # NoPos
       /\ g.board[g.just_advanced_two] # Piece(Not(g.turn), "Pawn")
    \/ \E p \in Positions :
          g.board[p] = Piece(g.turn, "King") /\ CastlingIsOffBoard(g, p)

\* the place of the first failure in `messages`, or 0
FirstFailure(messages) ==
    IF \E i \in 1 .. Len(messages) : messages[i] # "none"
    THEN CHOOSE i \in 1 .. Len(messages) :
            /\ messages[i] # "none"
            /\ \A j \in 1 .. i - 1 : messages[j] = "none"
    ELSE 0

\* Game::moves is lazy: the place, in the order of Board::iter, of the piece
\* at which the iterator fails when it is asked for that item, or 0 when it
\* can be consumed to the end (0 also when the call itself fails, the king
\* of the side to move missing)
FirstFailing(g, debug) ==
    IF PositionOf(g.board, Piece(g.turn, "King")) = NoPos THEN 0
    ELSE IF ~MayFail(g) THEN 0
    ELSE FirstFailure(MovesPanics(g, PositionOf(g.board, Piece(g.turn, "King")), debug))

\* the item that stands for the failure of the iterator
FailedItem == << NoPos, << NoPos >> >>

\* the items of `moves` before the place `failing`, then the failure
ItemsUpTo(moves, failing) ==
    IF failing = 0 THEN moves
    ELSE [i \in 1 .. failing - 1 |-> moves[i]] \o << FailedItem >>

\* the pieces visited one after the other, whatever the board
MovesPanicWalked(g, debug) ==
    IF PositionOf(g.board, Piece(g.turn, "King")) = NoPos
    THEN "king always exists"
    ELSE FirstPanic(MovesPanics(g, PositionOf(g.board, Piece(g.turn, "King")), debug))

\* Game::moves, consumed to the end: the message of the expectation or
\* assertion that fails first, or "none"; the king is looked for when
\* Game::moves is called, the pieces are visited as the iterator is consumed
MovesPanic(g, debug) ==
    IF PositionOf(g.board, Piece(g.turn, "King")) = NoPos
    THEN "king always exists"
    ELSE IF ~MayFail(g) THEN "none"
    ELSE MovesPanicWalked(g, debug)

\* Game::moves, in iteration order: <<from, destinations in generation order>>
Moves(g, debug) ==
    LET king_position == PositionOf(g.board, Piece(g.turn, "King"))
        froms == Iter(g.board, g.turn)
    IN  [i \in 1 .. Len(froms) |->
            <<froms[i], MovesFrom(g, froms[i], king_position, debug)>>]

\* Game::moves as its consumer sees it, item by item: what Moves lists, up to
\* the piece at which the iterator fails
MovesLazy(g, debug) == ItemsUpTo(Moves(g, debug), FirstFailing(g, debug))

\* Game::check
Check(g) == Attacks(g, Not(g.turn), PositionOf(g.board, Piece(g.turn, "King")))

\* Game::mate, on what Game::moves returned
Mate(moves) == \A i \in 1 .. Len(moves) : moves[i][2] = << >>

Win(color) == [outcome |-> "Win", color |-> color]

Draw == [outcome |-> "Draw", color |-> "None"]

NoOutcome == [outcome |-> "None", color |-> "None"]

\* mutant: a mate is awarded to the side that is mated
StatusOfSwapped(g, moves) ==
    IF Mate(moves)
    THEN IF Check(g) THEN Win(g.turn) ELSE Draw
    ELSE NoOutcome

\* Game::status, on what Game::moves returned
StatusOf(g, moves) ==
    IF Mate(moves)
    THEN IF Check(g) THEN Win(Not(g.turn)) ELSE Draw
    ELSE NoOutcome

Status(g, debug) == StatusOf(g, MovesLazy(g, debug))

\* Game::status on a game whose king is on the board: the message of the
\* failure, or "none". Game::mate consumes Game::moves up to the first piece
\* that has a move, so that a failure at a later piece does not happen;
\* Game::check is called when no piece has a move. `items` is MovesLazy
StatusPanicAt(g, items, king_position, debug) ==
    IF /\ items # << >>
       /\ items[Len(items)] = FailedItem
       /\ \A i \in 1 .. Len(items) - 1 : items[i][2] = << >>
    THEN MovesFromPanic(g, Iter(g.board, g.turn)[Len(items)], king_position, debug)
    ELSE IF Mate(items)
    THEN AttacksPanic(g, Not(g.turn), king_position)
    ELSE "none"

\* Game::status: the message of the failure, or "none"; `items` is MovesLazy
StatusPanic(g, items, debug) ==
    IF PositionOf(g.board, Piece(g.turn, "King")) = NoPos
    THEN "king always exists"
    ELSE IF ~MayFail(g) THEN "none"
    ELSE StatusPanicAt(g, items, PositionOf(g.board, Piece(g.turn, "King")), debug)

\* whether `moves` lists `to` among the destinations of `from`
Offers(moves, from, to) ==
    \E i \in 1 .. Len(moves) :
        /\ moves[i][1] = from
        /\ \E j \in 1 .. Len(moves[i][2]) : moves[i][2][j] = to

----------------------------------------------------------------------------
(* ai.rs                                                                   *)

MoveOf(from, to) == [kind |-> "Move", from |-> from, to |-> to, piece_type |-> "None"]

PromoteOf(from, to, piece_type) ==
    [kind |-> "Promote", from |-> from, to |-> to, piece_type |-> piece_type]

NoMove == [kind |-> "None", from |-> NoPos, to |-> NoPos, piece_type |-> "None"]

\* enum Evaluation { Outcome(Outcome), Estimate(i8) }
OutcomeEval(outcome) == [kind |-> "Outcome", outcome |-> outcome, n |-> 0]

EstimateEval(n) == [kind |-> "Estimate", outcome |-> NoOutcome, n |-> n]

\* the search did not return: an expectation or assertion failed
PanicEval == [kind |-> "Panic", outcome |-> NoOutcome, n |-> 0]

EvaluationMIN == OutcomeEval(Win("Black"))

EvaluationMAX == OutcomeEval(Win("White"))

CmpInt(n, m) == IF n < m THEN -1 ELSE IF n > m THEN 1 ELSE 0

\* impl Ord for Evaluation: -1 Less, 0 Equal, 1 Greater
Cmp(a, b) ==
    CASE a = EvaluationMAX /\ b = EvaluationMAX -> 0
      [] a = EvaluationMAX /\ b # EvaluationMAX -> 1
      [] a # EvaluationMAX /\ b = EvaluationMAX -> -1
      [] OTHER ->
            CASE a = EvaluationMIN /\ b = EvaluationMIN -> 0
              [] a = EvaluationMIN /\ b # EvaluationMIN -> -1
              [] a # EvaluationMIN /\ b = EvaluationMIN -> 1
              [] OTHER ->
                    CASE a.kind = "Outcome" /\ b.kind = "Outcome" -> 0
                      [] a.kind = "Outcome" /\ b.kind = "Estimate" -> CmpInt(0, b.n)
                      [] a.kind = "Estimate" /\ b.kind = "Outcome" -> CmpInt(a.n, 0)
                      [] OTHER -> CmpInt(a.n, b.n)

\* mutant: every piece but the king counts one
ValueFlat(piece) == IF piece = "King" THEN 0 ELSE 1

\* mutant: a queen is worth thirteen
ValueHeavy(piece) ==
    CASE piece = "Pawn" -> 1
      [] piece = "Knight" -> 3
      [] piece = "Bishop" -> 3
      [] piece = "Rook" -> 5
      [] piece = "Queen" -> 13
      [] piece = "King" -> 0

\* fn value
Value(piece) ==
    CASE piece = "Pawn" -> 1
      [] piece = "Knight" -> 3
      [] piece = "Bishop" -> 3
      [] piece = "Rook" -> 5
      [] piece = "Queen" -> 9
      [] piece = "King" -> 0

\* the values of an i8
I8 == -128 .. 127

\* no i8: the arithmetic has failed
Overflow == 128

\* i8 arithmetic of a build without overflow checks: it wraps
Wrap8(n) == ((n + 128) % 256) - 128

\* a + b and a - b in i8: a build with overflow checks, which is the debug
\* build, fails with "attempt to add with overflow" or "attempt to subtract
\* with overflow" where the release build wraps
Add8(a, b, debug) ==
    IF a + b \in I8 THEN a + b ELSE IF debug THEN Overflow ELSE Wrap8(a + b)

Sub8(a, b, debug) ==
    IF a - b \in I8 THEN a - b ELSE IF debug THEN Overflow ELSE Wrap8(a - b)

\* .map(value).sum::<i8>() over the pieces on `squares`, or Overflow
RECURSIVE SumValues(_, _, _, _)
SumValues(board, squares, acc, debug) ==
    IF squares = << >> \/ acc = Overflow THEN acc
    ELSE SumValues(board, Tail(squares),
                   Add8(acc, Value(board[Head(squares)].piece), debug), debug)

\* what is left of a sum and of what is taken from it, or Overflow
Difference(sum, taken, debug) ==
    IF sum = Overflow \/ taken = Overflow THEN Overflow ELSE Sub8(sum, taken, debug)

\* fn estimate, or Overflow where it fails
Estimate(g, debug) ==
    Difference(SumValues(g.board, Iter(g.board, "White"), 0, debug),
               SumValues(g.board, Iter(g.board, "Black"), 0, debug), debug)

\* fn estimate: the message of its failure, or "none"
EstimatePanic(g, debug) ==
    IF \E color \in PieceColor : SumValues(g.board, Iter(g.board, color), 0, debug) = Overflow
    THEN "attempt to add with overflow"
    ELSE IF Estimate(g, debug) = Overflow THEN "attempt to subtract with overflow"
    ELSE "none"

\* the evaluation of a leaf: Evaluation::Estimate of what fn estimate
\* returns, or no evaluation where it fails
EstimateOf(n) == IF n = Overflow THEN PanicEval ELSE EstimateEval(n)

\* mutant: every move is listed as a promotion to a queen
ExpandAsQueen(g, from, to) == << PromoteOf(from, to, "Queen") >>

\* the second flat_map of minimax: one move, or the four promotions
Expand(g, from, to) ==
    IF IsPromotion(g, from, to)
    THEN [k \in 1 .. Len(PROMOTIONS) |-> PromoteOf(from, to, PROMOTIONS[k])]
    ELSE << MoveOf(from, to) >>

RECURSIVE ExpandAll(_, _, _)
ExpandAll(g, from, tos) ==
    IF tos = << >> THEN << >>
    ELSE Expand(g, from, Head(tos)) \o ExpandAll(g, from, Tail(tos))

\* the item at which the iterator of minimax fails
FailedMove == [kind |-> "Failed", from |-> NoPos, to |-> NoPos, piece_type |-> "None"]

\* the moves minimax iterates over, in its order, from what Game::moves yields
RECURSIVE MoveList(_, _)
MoveList(g, moves) ==
    IF moves = << >> THEN << >>
    ELSE IF Head(moves) = FailedItem THEN << FailedMove >>
    ELSE ExpandAll(g, Head(moves)[1], Head(moves)[2]) \o MoveList(g, Tail(moves))

\* the failure of applying a move of the list, or "none"
ApplyPanic(g, move, debug) ==
    IF move.kind = "Move"
    THEN GameMovePanic(g, move.from, move.to, debug)
    ELSE GamePromotePanic(g, move.from, move.to, move.piece_type, debug)

Apply(g, move) ==
    IF move.kind = "Move"
    THEN GameMove(g, move.from, move.to)
    ELSE GamePromote(g, move.from, move.to, move.piece_type)

NoBest == [move |-> NoMove, evaluation |-> PanicEval]

\* mutant: a move as good as the best so far replaces it
ImprovesOrTies(turn, best, evaluation) ==
    \/ best = NoBest
    \/ turn = "White" /\ Cmp(evaluation, best.evaluation) >= 0
    \/ turn = "Black" /\ Cmp(evaluation, best.evaluation) <= 0

\* whether `evaluation` replaces the best so far
Improves(turn, best, evaluation) ==
    \/ best = NoBest
    \/ turn = "White" /\ Cmp(evaluation, best.evaluation) > 0
    \/ turn = "Black" /\ Cmp(evaluation, best.evaluation) < 0

\* mutant: the cutoff tests the bound that the side itself raises
CutoffSwapped(turn, evaluation, alpha, beta) ==
    IF turn = "White" THEN Cmp(evaluation, alpha) > 0 ELSE Cmp(evaluation, beta) < 0

\* the two break conditions of minimax
Cutoff(turn, evaluation, alpha, beta) ==
    IF turn = "White" THEN Cmp(evaluation, beta) > 0 ELSE Cmp(evaluation, alpha) < 0

\* mutant: the first move evaluated is not recorded
BetterOnlyReplaces(turn, best, move, evaluation) ==
    IF best # NoBest /\ Improves(turn, best, evaluation)
    THEN [move |-> move, evaluation |-> evaluation]
    ELSE best

\* the best so far after a move of that evaluation
Better(turn, best, move, evaluation) ==
    IF Improves(turn, best, evaluation)
    THEN [move |-> move, evaluation |-> evaluation]
    ELSE best

\* alpha after White has found a move of that evaluation
RaisedAlpha(turn, evaluation, alpha) ==
    IF turn = "White" /\ Cmp(evaluation, alpha) > 0 THEN evaluation ELSE alpha

\* beta after Black has found a move of that evaluation
LoweredBeta(turn, evaluation, beta) ==
    IF turn = "Black" /\ Cmp(evaluation, beta) < 0 THEN evaluation ELSE beta

\* fn minimax on the game `g`: the loop over `list`, the moves it iterates
\* over, from the i-th on, with the best found so far
RECURSIVE MinimaxLoop(_, _, _, _, _, _, _, _)

\* mutant: the last ply of the budget is not searched
DescendsOnceLess(status, depth) == status = NoOutcome /\ depth > 1

\* whether minimax calls itself on the game a move leads to: the game is not
\* finished and the depth is not used up
Descends(status, depth) == status = NoOutcome /\ depth # 0

\* the evaluation of the game a move leads to, `status` being its Game::status
EvaluationOf(child, child_moves, status, depth, alpha, beta, debug) ==
    IF status # NoOutcome THEN OutcomeEval(status)
    ELSE IF ~Descends(status, depth) THEN EstimateOf(Estimate(child, debug))
    ELSE MinimaxLoop(child, MoveList(child, child_moves), 1, depth - 1,
                     alpha, beta, NoBest, debug).evaluation

\* the loop is left without a result: a move, Game::status or Game::moves has
\* failed
MinimaxFailed ==
    [stop |-> TRUE, alpha |-> EvaluationMIN, beta |-> EvaluationMAX, best |-> NoBest]

\* the match on the turn once the move has its evaluation: the best so far and
\* the window after it, and whether the loop is left
MinimaxMatch(turn, move, alpha, beta, best, evaluation) ==
    IF evaluation = PanicEval THEN MinimaxFailed
    ELSE [stop |-> Cutoff(turn, evaluation, alpha, beta),
          alpha |-> RaisedAlpha(turn, evaluation, alpha),
          beta |-> LoweredBeta(turn, evaluation, beta),
          best |-> Better(turn, best, move, evaluation)]

\* the loop body on the game `child` the move leads to, whose Game::moves
\* yields `child_moves`
MinimaxVisit(g, move, depth, alpha, beta, best, debug, child, child_moves) ==
    IF StatusPanic(child, child_moves, debug) # "none" THEN MinimaxFailed
    ELSE MinimaxMatch(g.turn, move, alpha, beta, best,
                      EvaluationOf(child, child_moves, StatusOf(child, child_moves),
                                   depth, alpha, beta, debug))

\* the loop body once the move is made
MinimaxMade(g, move, depth, alpha, beta, best, debug, child) ==
    MinimaxVisit(g, move, depth, alpha, beta, best, debug, child, MovesLazy(child, debug))

\* one pass of the loop body, for `move`
MinimaxStep(g, move, depth, alpha, beta, best, debug) ==
    IF move = FailedMove THEN MinimaxFailed
    ELSE IF ApplyPanic(g, move, debug) # "none" THEN MinimaxFailed
    ELSE MinimaxMade(g, move, depth, alpha, beta, best, debug, Apply(g, move))

\* after the pass `step` for the i-th move: break, or go on with the next
MinimaxNext(g, list, i, depth, debug, step) ==
    IF step.stop THEN step.best
    ELSE MinimaxLoop(g, list, i + 1, depth, step.alpha, step.beta, step.best, debug)

MinimaxLoop(g, list, i, depth, alpha, beta, best, debug) ==
    IF i > Len(list) THEN best
    ELSE MinimaxNext(g, list, i, depth, debug,
                     MinimaxStep(g, list[i], depth, alpha, beta, best, debug))

\* fn minimax: <<move, evaluation>>, or NoBest when it does not return
Minimax(g, moves, depth, alpha, beta, debug) ==
    IF PositionOf(g.board, Piece(g.turn, "King")) = NoPos THEN NoBest
    ELSE MinimaxLoop(g, MoveList(g, ItemsUpTo(moves, FirstFailing(g, debug))), 1, depth,
                     alpha, beta, NoBest, debug)

\* mutant: with no move to choose from, a null move is returned
ChooseOfOrPass(g, moves, depth, debug) ==
    IF Mate(moves)
    THEN [move |-> MoveOf(0, 0), evaluation |-> OutcomeEval(Draw)]
    ELSE Minimax(g, moves, depth, EvaluationMIN, EvaluationMAX, debug)

\* fn choose, with the evaluation minimax found for the move
ChooseOf(g, moves, depth, debug) ==
    Minimax(g, moves, depth, EvaluationMIN, EvaluationMAX, debug)

----------------------------------------------------------------------------
(* The games played                                                        *)

\* a move of a line of play, files a..h and ranks as 1..8: <<from, to, promotion>>
M(f1, r1, f2, r2) == <<New(r1 - 1, f1 - 1), New(r2 - 1, f2 - 1), "None">>

P(f1, r1, f2, r2, piece_type) == <<New(r1 - 1, f1 - 1), New(r2 - 1, f2 - 1), piece_type>>

\* 1. e4 a6 2. e5 d5 3. c4 d4 4. a4 f5 5. exf6 (en passant)
LineEnPassant ==
    << M(5,2,5,4), M(1,7,1,6), M(5,4,5,5), M(4,7,4,5), M(3,2,3,4), M(4,5,4,4),
       M(1,2,1,4), M(6,7,6,5), M(5,5,6,6) >>

\* 1. e4 d5 2. Nf3 Nc6 3. Bc4 Bf5 4. O-O Qd7 5. d3 O-O-O
LineCastle ==
    << M(5,2,5,4), M(4,7,4,5), M(7,1,6,3), M(2,8,3,6), M(6,1,3,4), M(3,8,6,5),
       M(5,1,7,1), M(4,8,4,7), M(4,2,4,3), M(5,8,3,8) >>

\* 1. e4 e5 2. Nf3 Nf6 3. Bc4 Bc5 4. Rg1 Ke7 5. Rh1 Ke8: rook and king back home
LineShuffle ==
    << M(5,2,5,4), M(5,7,5,5), M(7,1,6,3), M(7,8,6,6), M(6,1,3,4), M(6,8,3,5),
       M(8,1,7,1), M(5,8,5,7), M(7,1,8,1), M(5,7,5,8) >>

\* 1. g4 b6 2. Bg2 Bb7 3. Nh3 Bxg2 4. a4 Bxh1 5. Ra3 Bb7 6. Rg3 a6 7. Rg1 a5
\* 8. Rh1 h6: the king's rook is taken at home and the queen's rook replaces it
LineRookTaken ==
    << M(7,2,7,4), M(2,7,2,6), M(6,1,7,2), M(3,8,2,7), M(7,1,8,3), M(2,7,7,2),
       M(1,2,1,4), M(7,2,8,1), M(1,1,1,3), M(8,1,2,7), M(1,3,7,3), M(1,7,1,6),
       M(7,3,7,1), M(1,6,1,5), M(7,1,8,1), M(8,7,8,6) >>

\* the same game up to 4... Bxh1: White's king's rook is gone
LineRookGone == SubSeq(LineRookTaken, 1, 8)

\* 1. e4 d5 2. exd5 c6 3. dxc6 a6 4. cxb7 a5: White promotes next
LinePromote ==
    << M(5,2,5,4), M(4,7,4,5), M(5,4,4,5), M(3,7,3,6), M(4,5,3,6), M(1,7,1,6),
       M(3,6,2,7), M(1,6,1,5) >>

\* 1. a3 e5 2. d4 exd4 3. c3 dxc3 4. a4 cxb2 5. a5 bxa1=N 6. a6
LineUnderpromote ==
    << M(1,2,1,3), M(5,7,5,5), M(4,2,4,4), M(5,5,4,4), M(3,2,3,3), M(4,4,3,3),
       M(1,3,1,4), M(3,3,2,2), M(1,4,1,5), P(2,2,1,1,"Knight"), M(1,5,1,6) >>

\* 1. f3 e5 2. g4 Qh4#
LineMate == << M(6,2,6,3), M(5,7,5,5), M(7,2,7,4), M(4,8,8,4) >>

\* 1. e3 a5 2. Qh5 Ra6 3. Qxa5 h5 4. h4 Rah6 5. Qxc7 f6 6. Qxd7+ Kf7 7. Qxb7 Qd3
\* 8. Qxb8 Qh7 9. Qxc8 Kg6 10. Qe6 stalemate
LineStalemate ==
    << M(5,2,5,3), M(1,7,1,5), M(4,1,8,5), M(1,8,1,6), M(8,5,1,5), M(8,7,8,5),
       M(8,2,8,4), M(1,6,8,6), M(1,5,3,7), M(6,7,6,6), M(3,7,4,7), M(5,8,6,7),
       M(4,7,2,7), M(4,8,4,3), M(2,7,2,8), M(4,3,8,7), M(2,8,3,8), M(6,7,7,6),
       M(3,8,5,6) >>

\* 1. d4 e5 2. dxe5 Qf6 3. Qxd7+ Kxd7 4. exf6 h6 5. Bxh6 Rxh6 6. fxg7 Rxh2 7. a3 Bxa3
\* 8. Rxa3 Rxh1 9. Rxa7 Rxg1 10. Rxb7 Rxg2 11. Rxb8 Rxf2 12. Rxc8 Rxe2+ 13. Bxe2 Rb8
\* 14. Rxg8 Rxb2 15. Rc8 Rxc2 16. Rxc7+ Ke8 17. Rxf7 Rxe2+ 18. Kxe2 Kxf7 19. Kd1 Kg6:
\* king, knight and a pawn on g7 against the bare king; then 20. Ke2 Kf7
\* 21. Kf3 Kg8 22. Kg4 Kf7 23. Kg5 Kg8, where 24. Kg6 would be stalemate
LineEndgame ==
    << M(4,2,4,4), M(5,7,5,5), M(4,4,5,5), M(4,8,6,6), M(4,1,4,7), M(5,8,4,7),
       M(5,5,6,6), M(8,7,8,6), M(3,1,8,6), M(8,8,8,6), M(6,6,7,7), M(8,6,8,2),
       M(1,2,1,3), M(6,8,1,3), M(1,1,1,3), M(8,2,8,1), M(1,3,1,7), M(8,1,7,1),
       M(1,7,2,7), M(7,1,7,2), M(2,7,2,8), M(7,2,6,2), M(2,8,3,8), M(6,2,5,2),
       M(6,1,5,2), M(1,8,2,8), M(3,8,7,8), M(2,8,2,2), M(7,8,3,8), M(2,2,3,2),
       M(3,8,3,7), M(4,7,5,8), M(3,7,6,7), M(3,2,5,2), M(5,1,5,2), M(5,8,6,7),
       M(5,2,4,1), M(6,7,7,6), M(4,1,5,2), M(7,6,6,7), M(5,2,6,3), M(6,7,7,8),
       M(6,3,7,4), M(7,8,6,7), M(7,4,7,5), M(6,7,7,8) >>

Lines ==
    << << >>, LineEnPassant, LineCastle, LineShuffle, LineRookTaken,
       LineRookGone, LinePromote, LineUnderpromote, LineMate, LineStalemate,
       LineEndgame >>

----------------------------------------------------------------------------
(* The state machine                                                       *)

NoChoice == [kind |-> "None", depth |-> 0, move |-> NoMove, evaluation |-> PanicEval]

\* no call outside the REQUIRES clauses of Game::move and Game::promote yet
NoMisuse ==
    [call |-> "none", from |-> NoPos, to |-> NoPos, piece_type |-> "None",
     result |-> "none"]

PieceCount(board) == Cardinality({p \in Positions : board[p] # None})

\* the squares whose piece has moved, after the move from -> to on `board`
HasMovedAfter(moved, board, from, to) ==
    LET plain == (moved \ {from}) \cup {to}
        passant == IF IsEnPassantShape(board, from, to)
                   THEN plain \ {New(Rank(from), File(to))} ELSE plain
    IN  IF IsCastlingShape(board, from, to)
        THEN (passant \ {CastlingRookFrom(from, to)}) \cup {CastlingRookTo(from, to)}
        ELSE passant

\* what the move from -> to adds to the history of kings and corner rooks
EventsAfter(ev, board, from) ==
    LET piece == board[from]
        home == piece_starting_rank(piece.color)
    IN  CASE piece.piece = "King" -> ev \cup {<<piece.color, "king">>}
          [] /\ piece.piece = "Rook"
             /\ from = New(home, 0)
             /\ <<piece.color, "king">> \notin ev -> ev \cup {<<piece.color, "queenside">>}
          [] /\ piece.piece = "Rook"
             /\ from = New(home, 7)
             /\ <<piece.color, "king">> \notin ev -> ev \cup {<<piece.color, "kingside">>}
          [] OTHER -> ev

\* the move the line of play prescribes, or any move while free play lasts
Allowed(from, to, piece_type) ==
    IF ply < Len(Lines[line])
    THEN Lines[line][ply + 1] = <<from, to, piece_type>>
    ELSE free < MaxFree

Advance ==
    IF ply < Len(Lines[line])
    THEN ply' = ply + 1 /\ free' = free
    ELSE ply' = ply /\ free' = free + 1

\* no promotion is being chosen
NoSelection == << NoPos, NoPos >>

\* Game::check: the message of the failure, or "none"
CheckPanic(g) ==
    IF PositionOf(g.board, Piece(g.turn, "King")) = NoPos
    THEN "king always exists"
    ELSE AttacksPanic(g, Not(g.turn), PositionOf(g.board, Piece(g.turn, "King")))

\* one turn of the loop of Tui::run up to the wait for an event: the widget
\* is drawn, which asks Game::check, then Game::status is asked; the message
\* of the first failure, or "none"
DrawPanic(g, debug) ==
    IF CheckPanic(g) # "none" THEN CheckPanic(g)
    ELSE StatusPanic(g, MovesLazy(g, debug), debug)

\* the game the handler has made is drawn and asked for its status; nothing
\* is selected any more. Game::moves is consumed to its end by select_tile
\* only: `offered` holds what it will yield then, up to its failure
Arrive(g) ==
    /\ game' = g
    /\ panic' = DrawPanic(g, debug_assertions)
    /\ offered' = IF panic' = "none" THEN MovesLazy(g, debug_assertions) ELSE << >>
    /\ selected_tile' = NoPos
    /\ selected_promotion' = NoSelection

\* the pieces of each colour on `board`, counted type by type
ArmiesOf(board) ==
    [color \in PieceColor |->
        [piece_type \in PieceType |->
            Cardinality({p \in Positions : board[p] = Piece(color, piece_type)})]]

Init ==
    /\ game = GameNew
    /\ debug_assertions \in BOOLEAN
    /\ offered = Moves(GameNew, debug_assertions)
    /\ selected_tile = NoPos
    /\ selected_promotion = NoSelection
    /\ panic = "none"
    /\ line \in 1 .. Len(Lines)
    /\ ply = 0
    /\ free = 0
    /\ last = [kind |-> "new", from |-> NoPos, to |-> NoPos, piece_type |-> "None",
               before |-> GameNew]
    /\ has_moved = {}
    /\ events = {}
    /\ chosen = NoChoice
    /\ misuse = NoMisuse
    /\ army = ArmiesOf(BoardNew)

\* the tiles clicked on: the piece the line of play moves next, or, while
\* free play lasts, any piece that has a move
CanSelect(position) ==
    IF ply < Len(Lines[line])
    THEN Lines[line][ply + 1][1] = position
    ELSE /\ free < MaxFree
         /\ \E i \in 1 .. Len(offered) :
               offered[i][1] = position /\ offered[i][2] # << >>

\* Tui::handle, a click on a tile that is no destination of the selected
\* one: select_tile consumes Game::moves to its end and keeps the entry of
\* the tile
SelectTile(position) ==
    /\ panic = "none"
    /\ chosen = NoChoice
    /\ misuse = NoMisuse
    /\ ~Mate(offered)
    /\ position # NoPos
    /\ selected_tile # position
    /\ CanSelect(position)
    /\ panic' = MovesPanic(game, debug_assertions)
    /\ IF panic' = "none"
       THEN selected_tile' = position /\ selected_promotion' = NoSelection
       ELSE UNCHANGED <<selected_tile, selected_promotion>>
    /\ UNCHANGED <<game, offered, debug_assertions, line, ply, free, last,
                   has_moved, events, chosen, misuse, army>>

\* Tui::handle, a click on a destination of the selected tile that is no
\* promotion: Game::move
Play(from, to) ==
    /\ panic = "none"
    /\ from # NoPos
    /\ selected_tile = from
    /\ Offers(offered, from, to)
    /\ ~IsPromotion(game, from, to)
    /\ Allowed(from, to, "None")
    /\ GameMovePanic(game, from, to, debug_assertions) = "none"
    /\ Arrive(GameMove(game, from, to))
    /\ army' = ArmiesOf(GameMove(game, from, to).board)
    /\ Advance
    /\ last' = [kind |-> "move", from |-> from, to |-> to, piece_type |-> "None",
                before |-> game]
    /\ has_moved' = HasMovedAfter(has_moved, game.board, from, to)
    /\ events' = EventsAfter(events, game.board, from)
    /\ chosen' = NoChoice
    /\ misuse' = NoMisuse
    /\ UNCHANGED <<debug_assertions, line>>

\* Tui::handle, a click on a destination of the selected tile that is a
\* promotion: the piece is chosen by the next click
SelectPromotion(from, to) ==
    /\ panic = "none"
    /\ from # NoPos
    /\ selected_tile = from
    /\ Offers(offered, from, to)
    /\ IsPromotion(game, from, to)
    /\ \E k \in 1 .. Len(PROMOTIONS) : Allowed(from, to, PROMOTIONS[k])
    /\ selected_promotion' = << from, to >>
    /\ selected_tile' = NoPos
    /\ UNCHANGED <<game, offered, debug_assertions, panic, line, ply, free, last,
                   has_moved, events, chosen, misuse, army>>

\* Tui::handle, a click on a piece of the promotion being chosen:
\* Game::promote
PlayPromote(from, to, piece_type) ==
    /\ panic = "none"
    /\ selected_promotion # NoSelection
    /\ selected_promotion = << from, to >>
    /\ Allowed(from, to, piece_type)
    /\ GamePromotePanic(game, from, to, piece_type, debug_assertions) = "none"
    /\ Arrive(GamePromote(game, from, to, piece_type))
    /\ army' = ArmiesOf(GamePromote(game, from, to, piece_type).board)
    /\ Advance
    /\ last' = [kind |-> "promote", from |-> from, to |-> to, piece_type |-> piece_type,
                before |-> game]
    /\ has_moved' = (has_moved \ {from}) \cup {to}
    /\ events' = events
    /\ chosen' = NoChoice
    /\ misuse' = NoMisuse
    /\ UNCHANGED <<debug_assertions, line>>

\* Tui::handle, a click on a destination of the selected tile, Game::move
\* failing on one of its assertions
PlayFails(from, to) ==
    /\ panic = "none"
    /\ from # NoPos
    /\ selected_tile = from
    /\ Offers(offered, from, to)
    /\ ~IsPromotion(game, from, to)
    /\ Allowed(from, to, "None")
    /\ GameMovePanic(game, from, to, debug_assertions) # "none"
    /\ panic' = GameMovePanic(game, from, to, debug_assertions)
    /\ UNCHANGED <<game, offered, selected_tile, selected_promotion, debug_assertions,
                   line, ply, free, last, has_moved, events, chosen, misuse, army>>

Next ==
    \/ \E i \in 1 .. Len(offered) : SelectTile(offered[i][1])
    \/ \E i \in 1 .. Len(offered) : \E j \in 1 .. Len(offered[i][2]) :
            Play(offered[i][1], offered[i][2][j])
    \/ \E i \in 1 .. Len(offered) : \E j \in 1 .. Len(offered[i][2]) :
            SelectPromotion(offered[i][1], offered[i][2][j])
    \/ \E k \in 1 .. Len(PROMOTIONS) :
            PlayPromote(selected_promotion[1], selected_promotion[2], PROMOTIONS[k])
    \/ \E i \in 1 .. Len(offered) : \E j \in 1 .. Len(offered[i][2]) :
            PlayFails(offered[i][1], offered[i][2][j])

Spec == Init /\ [][Next]_vars

\* ai::choose asked for a move in the game reached, which it leaves as it is;
\* the search is run on the sparse positions of the lines of play, on the
\* finished games and, with depth 0, on the opening position
Choose(depth) ==
    /\ panic = "none"
    /\ chosen = NoChoice
    /\ selected_tile = NoPos
    /\ selected_promotion = NoSelection
    /\ free = 0
    /\ \/ PieceCount(game.board) <= MaxPieces
       \/ Mate(offered)
       \/ last.kind = "new" /\ depth = 0
    /\ LET found == ChooseOf(game, offered, depth, debug_assertions)
       IN  IF found = NoBest
           THEN /\ panic' = "choose"
                /\ chosen' = chosen
           ELSE /\ panic' = panic
                /\ chosen' = [kind |-> "Choice", depth |-> depth, move |-> found.move,
                              evaluation |-> found.evaluation]
    /\ UNCHANGED <<game, offered, selected_tile, selected_promotion, debug_assertions,
                   line, ply, free, last, has_moved, events, misuse, army>>

NextAI ==
    \/ Next
    \/ \E depth \in 0 .. MaxDepth : Choose(depth)

SpecAI == Init /\ [][NextAI]_vars

\* what a call outside a REQUIRES clause leaves behind: the failure stops the
\* program, a returned Game is a value in the caller's hands
Misused(call, from, to, piece_type, message) ==
    /\ panic' = message
    /\ misuse' = [call |-> call, from |-> from, to |-> to, piece_type |-> piece_type,
                  result |-> IF message = "none" THEN "returned" ELSE "failed"]
    /\ UNCHANGED <<game, offered, selected_tile, selected_promotion, debug_assertions,
                   line, ply, free, last, has_moved, events, chosen, army>>

\* Game::move called on a promotion Game::moves offers
MisuseMove(from, to) ==
    /\ panic = "none"
    /\ misuse = NoMisuse
    /\ selected_tile = NoPos
    /\ selected_promotion = NoSelection
    /\ free = 0
    /\ Offers(offered, from, to)
    /\ IsPromotion(game, from, to)
    /\ Misused("Game::move", from, to, "None",
               GameMovePanic(game, from, to, debug_assertions))

\* Game::promote called on an offered move of a piece that is no pawn, on an
\* offered pawn move that is no promotion, or on an offered promotion with a
\* piece type that is none of PROMOTIONS
MisusePromote(from, to, piece_type) ==
    /\ panic = "none"
    /\ misuse = NoMisuse
    /\ selected_tile = NoPos
    /\ selected_promotion = NoSelection
    /\ free = 0
    /\ Offers(offered, from, to)
    /\ IF IsPromotion(game, from, to)
       THEN \A k \in 1 .. Len(PROMOTIONS) : PROMOTIONS[k] # piece_type
       ELSE piece_type = "Queen"
    /\ Misused("Game::promote", from, to, piece_type,
               GamePromotePanic(game, from, to, piece_type, debug_assertions))

NextMisuse ==
    \/ Next
    \/ \E i \in 1 .. Len(offered) : \E j \in 1 .. Len(offered[i][2]) :
            MisuseMove(offered[i][1], offered[i][2][j])
    \/ \E i \in 1 .. Len(offered) : \E j \in 1 .. Len(offered[i][2]) :
            \E piece_type \in PieceType :
                MisusePromote(offered[i][1], offered[i][2][j], piece_type)

SpecMisuse == Init /\ [][NextMisuse]_vars

----------------------------------------------------------------------------
(* Properties                                                              *)

KingCount(board, color) ==
    Cardinality({p \in Positions : board[p] = Piece(color, "King")})

\* the king of `color` is not attacked by the other side in `g`
KingSafe(g, color) ==
    \A k \in Positions :
        g.board[k] = Piece(color, "King") => ~Attacks(g, Not(color), k)

HasLegalMove == \E i \in 1 .. Len(offered) : offered[i][2] # << >>

\* the king of the side to move stands on a square an enemy piece attacks
KingAttacked ==
    \E k \in Positions :
        /\ game.board[k] = Piece(game.turn, "King")
        /\ \E p \in Positions :
              /\ game.board[p].color = Not(game.turn)
              /\ PieceAttacks(game.board, p, k)

\* P(from, to) for every move Game::moves offers in the current state
ForAllOffered(Pred(_, _)) ==
    \A i \in 1 .. Len(offered) : \A j \in 1 .. Len(offered[i][2]) :
        Pred(offered[i][1], offered[i][2][j])

ExistsOffered(Pred(_, _)) ==
    \E i \in 1 .. Len(offered) : \E j \in 1 .. Len(offered[i][2]) :
        Pred(offered[i][1], offered[i][2][j])

\* C1: in every state reached from Game::new() by offered moves, the board
\* holds exactly one White king and exactly one Black king.
C1_OneKingEach ==
    /\ KingCount(game.board, "White") = 1
    /\ KingCount(game.board, "Black") = 1

\* a check has just been given by a capture, and both kings stand
C1_Witness ==
    /\ last.kind = "move"
    /\ last.before.board[last.to] # None
    /\ Check(game)
    /\ C1_OneKingEach

\* C2: after any offered move (any of the four pieces for a promotion) the
\* mover's own king is not attacked by the opponent.
C2_NoSelfCheck ==
    panic = "none" =>
        ForAllOffered(LAMBDA from, to :
            IF IsPromotion(game, from, to)
            THEN \A k \in 1 .. Len(PROMOTIONS) :
                    KingSafe(GamePromote(game, from, to, PROMOTIONS[k]), game.turn)
            ELSE GameMovePanic(game, from, to, debug_assertions) = "none"
                    => KingSafe(GameMove(game, from, to), game.turn))

\* the side to move is in check, can answer it, and has a piece that may not move
C2_Witness ==
    /\ panic = "none"
    /\ Check(game)
    /\ HasLegalMove
    /\ \E i \in 1 .. Len(offered) : offered[i][2] = << >>

\* a castling destination towards `side` is offered to `color`
CastlingOffered(color, side) ==
    /\ game.turn = color
    /\ ExistsOffered(LAMBDA from, to :
          /\ IsCastlingShape(game.board, from, to)
          /\ (side = "queenside") = (File(to) < File(from)))

\* C3: once a king has moved, neither castling right of its color is reported
\* again; once a corner rook has left home while the king was unmoved, the
\* right of that side is never reported again, whatever stands there later.
C3_CastlingRightsNeverReturn ==
    \A color \in PieceColor :
        /\ <<color, "king">> \in events =>
              /\ ~can_castle_queenside(game.castling[color])
              /\ ~can_castle_kingside(game.castling[color])
              /\ ~CastlingOffered(color, "queenside")
              /\ ~CastlingOffered(color, "kingside")
        /\ <<color, "queenside">> \in events =>
              /\ ~can_castle_queenside(game.castling[color])
              /\ ~CastlingOffered(color, "queenside")
        /\ <<color, "kingside">> \in events =>
              /\ ~can_castle_kingside(game.castling[color])
              /\ ~CastlingOffered(color, "kingside")

\* White's king's rook went out and came home, the king never moved, and the
\* squares between them are empty and safe
C3_Witness ==
    /\ <<"White", "kingside">> \in events
    /\ <<"White", "king">> \notin events
    /\ game.turn = "White"
    /\ game.board[New(0, 4)] = Piece("White", "King")
    /\ game.board[New(0, 7)] = Piece("White", "Rook")
    /\ IsVacant(game.board, New(0, 5)) /\ IsVacant(game.board, New(0, 6))
    /\ ~Attacks(game, "Black", New(0, 4))
    /\ ~Attacks(game, "Black", New(0, 5))
    /\ ~Attacks(game, "Black", New(0, 6))

\* C4: a castling destination is offered only if neither the king nor the
\* rook that the move relocates has moved earlier in the game.
C4_CastlingOnlyUnmoved ==
    panic = "none" =>
        ForAllOffered(LAMBDA from, to :
            IsCastlingShape(game.board, from, to) =>
                /\ from \notin has_moved
                /\ game.board[CastlingRookFrom(from, to)] = Piece(game.turn, "Rook")
                      => CastlingRookFrom(from, to) \notin has_moved)

\* the last move was a pawn's advance of two squares
LastAdvancedTwo ==
    /\ last.kind = "move"
    /\ last.before.board[last.from].piece = "Pawn"
    /\ AbsDiff(Rank(last.from), Rank(last.to)) = 2

\* the square that pawn skipped
Skipped == New((Rank(last.from) + Rank(last.to)) \div 2, File(last.to))

\* the pawn on `beside` taking en passant would not leave its king attacked
EnPassantKeepsKingSafe(beside) ==
    LET board == [game.board EXCEPT ![beside] = None, ![last.to] = None,
                                    ![Skipped] = Piece(game.turn, "Pawn")]
    IN  KingSafe([game EXCEPT !.board = board], game.turn)

\* C5: right after a pawn advanced two squares, an enemy pawn beside it is
\* offered the capture onto the skipped square unless that exposes its king;
\* a pawn is offered a diagonal move onto an empty square at no other time.
C5_EnPassantWindow ==
    panic = "none" =>
        /\ LastAdvancedTwo =>
              \A beside \in {Left(last.to), Right(last.to)} \ {NoPos} :
                  /\ game.board[beside] = Piece(game.turn, "Pawn")
                  /\ EnPassantKeepsKingSafe(beside)
                  => Offers(offered, beside, Skipped)
        /\ ForAllOffered(LAMBDA from, to :
              IsEnPassantShape(game.board, from, to) =>
                  /\ LastAdvancedTwo
                  /\ last.to = New(Rank(from), File(to))
                  /\ to = Skipped)

\* a pawn has just advanced two squares and the pawn beside it may take it
C5_Witness ==
    /\ panic = "none"
    /\ LastAdvancedTwo
    /\ \E beside \in {Left(last.to), Right(last.to)} \ {NoPos} :
          /\ game.board[beside] = Piece(game.turn, "Pawn")
          /\ Offers(offered, beside, Skipped)

\* C6: Game::status is None exactly when a move is offered; with none offered
\* it is Win(opponent) if the king is attacked and Draw if not, and then every
\* entry of Game::moves is empty.
C6_Status ==
    panic = "none" =>
        LET status == StatusOf(game, offered)
        IN  /\ (status = NoOutcome) <=> HasLegalMove
            /\ ~HasLegalMove /\ KingAttacked => status = Win(Not(game.turn))
            /\ ~HasLegalMove /\ ~KingAttacked => status = Draw
            /\ status # NoOutcome => \A i \in 1 .. Len(offered) : offered[i][2] = << >>

\* a mate has been delivered
C6_Witness ==
    /\ panic = "none"
    /\ last.kind = "move"
    /\ ~HasLegalMove
    /\ KingAttacked
    /\ StatusOf(game, offered) = Win(Not(game.turn))

\* C9: every offered move starts from a piece of the side to move; if its
\* destination is occupied, the occupant is an enemy piece and Game::attacks
\* reports that square attacked by the side to move.
C9_MovesAndAttacksConsistent ==
    panic = "none" =>
        ForAllOffered(LAMBDA from, to :
            /\ game.board[from].color = game.turn
            /\ game.board[to] # None =>
                  /\ game.board[to].color = Not(game.turn)
                  /\ Attacks(game, game.turn, to))

\* a capture is offered
C9_Witness ==
    /\ panic = "none"
    /\ ExistsOffered(LAMBDA from, to : game.board[to] # None)

\* the transition from `before` to `after` by from -> to passes the turn and
\* takes only an enemy piece
TurnPassed(before, after, from, to) ==
    /\ after.turn = Not(before.turn)
    /\ before.board[to] # None =>
          before.board[to].color = Not(before.board[from].color)

\* C10: every Game::move and Game::promote passes the turn to the other side,
\* and a piece standing on the destination was of the color opposite to the
\* moved piece.
C10_TurnFlipsAndCapturesEnemy ==
    /\ last.kind # "new" => TurnPassed(last.before, game, last.from, last.to)
    /\ panic = "none" =>
          ForAllOffered(LAMBDA from, to :
              IF IsPromotion(game, from, to)
              THEN \A k \in 1 .. Len(PROMOTIONS) :
                      TurnPassed(game, GamePromote(game, from, to, PROMOTIONS[k]), from, to)
              ELSE GameMovePanic(game, from, to, debug_assertions) = "none"
                      => TurnPassed(game, GameMove(game, from, to), from, to))

\* a pawn has just promoted by taking a piece
C10_Witness ==
    /\ last.kind = "promote"
    /\ last.before.board[last.to] # None
    /\ game.turn = Not(last.before.turn)

\* minimax without cutoffs: the best evaluation for the side to move of `g`
\* among the moves of the list from the i-th on and `best`
RECURSIVE PlainMinimax(_, _, _, _, _, _)

\* the evaluation of the game a move leads to: terminal test, leaf estimate or
\* the plain minimax value
PlainEvaluation(child, child_moves, depth, debug) ==
    IF StatusOf(child, child_moves) # NoOutcome
    THEN OutcomeEval(StatusOf(child, child_moves))
    ELSE IF depth = 0 THEN EstimateOf(Estimate(child, debug))
    ELSE PlainMinimax(child, MoveList(child, child_moves), 1, depth - 1, PanicEval, debug)

PlainBetter(turn, best, evaluation) ==
    IF \/ best = PanicEval
       \/ turn = "White" /\ Cmp(evaluation, best) > 0
       \/ turn = "Black" /\ Cmp(evaluation, best) < 0
    THEN evaluation ELSE best

PlainVisit(g, depth, best, debug, child) ==
    PlainBetter(g.turn, best, PlainEvaluation(child, Moves(child, debug), depth, debug))

PlainNext(g, list, i, depth, debug, better) ==
    IF better = PanicEval THEN better
    ELSE PlainMinimax(g, list, i + 1, depth, better, debug)

PlainMinimax(g, list, i, depth, best, debug) ==
    IF i > Len(list) THEN best
    ELSE PlainNext(g, list, i, depth, debug,
                   PlainVisit(g, depth, best, debug, Apply(g, list[i])))

\* no move of the search tree below the game fails an assertion
RECURSIVE SearchIsSafe(_, _, _)
SearchIsSafe(g, depth, debug) ==
    LET list == MoveList(g, Moves(g, debug))
    IN  \A i \in 1 .. Len(list) :
            /\ ApplyPanic(g, list[i], debug) = "none"
            /\ MovesPanic(Apply(g, list[i]), debug) = "none"
            /\ depth > 0 => SearchIsSafe(Apply(g, list[i]), depth - 1, debug)

\* C7: the move ai::choose returns for a game that is not finished is one
\* Game::moves offers, it is a Promote exactly when Game::is_promotion holds
\* for it, and a Promote carries a queen, rook, bishop or knight.
C7_ChooseReturnsOfferedMove ==
    chosen.kind = "Choice" =>
        /\ Offers(offered, chosen.move.from, chosen.move.to)
        /\ (chosen.move.kind = "Promote")
              <=> IsPromotion(game, chosen.move.from, chosen.move.to)
        /\ chosen.move.kind = "Promote" =>
              chosen.move.piece_type \in {"Queen", "Rook", "Bishop", "Knight"}
        /\ chosen.move.kind \in {"Move", "Promote"}

\* ai::choose has answered with a promotion
C7_Witness ==
    /\ chosen.kind = "Choice"
    /\ chosen.move.kind = "Promote"
    /\ IsPromotion(game, chosen.move.from, chosen.move.to)

\* C8: the evaluation the alpha-beta search returns at the root, called with
\* the window MIN..MAX, compares equal to the evaluation of minimax without
\* cutoffs over the same moves, terminal test and leaf estimate.
C8_AlphaBetaEqualsMinimax ==
    chosen.kind = "Choice" /\ SearchIsSafe(game, chosen.depth, debug_assertions) =>
        Cmp(chosen.evaluation,
            PlainMinimax(game, MoveList(game, offered), 1, chosen.depth, PanicEval,
                         debug_assertions)) = 0

\* the alpha-beta search of the moves of the list from the i-th on leaves its
\* loop early somewhere, here or below
RECURSIVE SearchCuts(_, _, _, _, _, _, _, _)

SearchCutsBelow(depth, alpha, beta, debug, child, child_moves) ==
    /\ depth > 0
    /\ StatusOf(child, child_moves) = NoOutcome
    /\ SearchCuts(child, MoveList(child, child_moves), 1, depth - 1, alpha, beta,
                  NoBest, debug)

SearchCutsAt(g, list, i, depth, alpha, beta, debug, child, step) ==
    \/ step.stop
    \/ SearchCutsBelow(depth, alpha, beta, debug, child, Moves(child, debug))
    \/ SearchCuts(g, list, i + 1, depth, step.alpha, step.beta, step.best, debug)

SearchCuts(g, list, i, depth, alpha, beta, best, debug) ==
    /\ i <= Len(list)
    /\ SearchCutsAt(g, list, i, depth, alpha, beta, debug, Apply(g, list[i]),
                    MinimaxStep(g, list[i], depth, alpha, beta, best, debug))

\* a search has answered after leaving a loop early below the root
C8_Witness ==
    /\ chosen.kind = "Choice"
    /\ chosen.depth >= 1
    /\ SearchIsSafe(game, chosen.depth, debug_assertions)
    /\ SearchCuts(game, MoveList(game, offered), 1, chosen.depth,
                  EvaluationMIN, EvaluationMAX, NoBest, debug_assertions)

\* the number of (from, to) pairs the offered list holds
OfferedCount ==
    Cardinality({pair \in (1 .. Len(offered)) \X (1 .. 8) :
                    pair[2] <= Len(offered[pair[1]][2])})

\* the destinations offered from one square, as a set
OfferedFrom(from) == {to \in Positions : Offers(offered, from, to)}

\* C11: from Game::new(), Game::moves offers White exactly 20 (from, to)
\* pairs: two for each of the eight pawns (one and two squares ahead), two for
\* each of the two knights, and none for any other piece.
C11_TwentyOpeningMoves ==
    last.kind = "new" =>
        /\ game = GameNew
        /\ game.turn = "White"
        /\ OfferedCount = 20
        /\ \A i \in 1 .. Len(offered) :
              LET from == offered[i][1]
                  count == Len(offered[i][2])
                  to == {offered[i][2][j] : j \in 1 .. count}
              IN  /\ game.board[from].color = "White"
                  /\ CASE game.board[from].piece = "Pawn" ->
                             /\ count = 2
                             /\ to = {New(2, File(from)), New(3, File(from))}
                       [] game.board[from].piece = "Knight" ->
                             /\ count = 2
                             /\ to = {New(2, File(from) - 1), New(2, File(from) + 1)}
                       [] OTHER -> count = 0
        /\ Cardinality({from \in Positions : game.board[from] = Piece("White", "Pawn")
                                             /\ Cardinality(OfferedFrom(from)) = 2}) = 8
        /\ Cardinality({from \in Positions : game.board[from] = Piece("White", "Knight")
                                             /\ Cardinality(OfferedFrom(from)) = 2}) = 2

\* the opening position with its moves listed
C11_Witness ==
    /\ last.kind = "new"
    /\ panic = "none"
    /\ OfferedCount = 20
    /\ Offers(offered, New(1, 4), New(3, 4))
    /\ Offers(offered, New(0, 6), New(2, 5))

\* C12: just_advanced_two is Some(p) exactly when the transition that led to
\* the position was a pawn move over two ranks that landed on p; it is None in
\* the opening position, after every other move and after every promotion.
C12_JustAdvancedTwoExact ==
    /\ last.kind \in {"new", "promote"} => game.just_advanced_two = NoPos
    /\ last.kind = "move" =>
          /\ game.just_advanced_two # NoPos <=> LastAdvancedTwo
          /\ LastAdvancedTwo =>
                /\ game.just_advanced_two = last.to
                /\ game.board[last.to] = Piece(last.before.turn, "Pawn")

\* a pawn has just advanced two squares and the marker names its square
C12_Witness ==
    /\ last.kind = "move"
    /\ LastAdvancedTwo
    /\ game.just_advanced_two = last.to
    /\ game.board[last.to].piece = "Pawn"

\* the squares of the rank of `from` whose file lies strictly between two files
Between(from, low, high) ==
    {p \in Positions : Rank(p) = Rank(from) /\ low < File(p) /\ File(p) < high}

\* the castling right of the side of the board the king on `from` moves to
RightHeld(from, to) ==
    IF File(to) > File(from)
    THEN can_castle_kingside(game.castling[game.turn])
    ELSE can_castle_queenside(game.castling[game.turn])

\* the squares strictly between the king on `from` and the corner beyond `to`
BetweenKingAndRook(from, to) ==
    IF File(to) > File(from) THEN Between(from, File(from), 7)
    ELSE Between(from, 0, File(from))

\* the start, the passed-over square and the destination of the king
KingPath(from, to) ==
    IF File(to) > File(from) THEN Between(from, File(from) - 1, File(to) + 1)
    ELSE Between(from, File(to) - 1, File(from) + 1)

\* C13: a castling destination is offered only when the right of that side is
\* still held, every square strictly between the king and the corner rook is
\* vacant, and none of the king's start, passed-over and destination squares
\* is attacked by the opponent.
C13_CastlingOfferedOnlyWhenClear ==
    panic = "none" =>
        ForAllOffered(LAMBDA from, to :
            IsCastlingShape(game.board, from, to) =>
                /\ RightHeld(from, to)
                /\ \A p \in BetweenKingAndRook(from, to) : game.board[p] = None
                /\ Cardinality(KingPath(from, to)) = 3
                /\ \A p \in KingPath(from, to) : ~Attacks(game, Not(game.turn), p))

\* castling is offered to the side to move
C13_Witness ==
    /\ panic = "none"
    /\ ExistsOffered(LAMBDA from, to :
          /\ IsCastlingShape(game.board, from, to)
          /\ RightHeld(from, to)
          /\ \A p \in BetweenKingAndRook(from, to) : game.board[p] = None)

\* every value of CastlingInfo
CastlingInfos ==
    {KingHasMoved} \cup {KingHasNotMoved(q, k) : q \in BOOLEAN, k \in BOOLEAN}

\* the three updates of CastlingInfo, on every value of it
CastlingInfoStateMachine ==
    \A info \in CastlingInfos :
        /\ move_king(info) = KingHasMoved
        /\ info = KingHasMoved =>
              /\ move_queenside_rook(info) = KingHasMoved
              /\ move_kingside_rook(info) = KingHasMoved
        /\ info # KingHasMoved =>
              /\ move_queenside_rook(info) =
                    KingHasNotMoved(FALSE, info.kingside_rook_has_not_moved)
              /\ move_kingside_rook(info) =
                    KingHasNotMoved(info.queenside_rook_has_not_moved, FALSE)

\* the piece of the last transition left its home square: king or corner rook
LastLeftHome(piece_type, file) ==
    /\ last.kind = "move"
    /\ last.before.board[last.from].piece = piece_type
    /\ Rank(last.from) = (IF last.before.turn = "White" THEN 0 ELSE 7)
    /\ File(last.from) = file

\* C14: per color the castling rights start with both sides available;
\* move_king always leads to KingHasMoved, which no operation leaves;
\* move_queenside_rook and move_kingside_rook on an unmoved king clear only
\* their own flag, leave the other flag and the other color's rights alone,
\* and do nothing once the king has moved.
C14_CastlingRightsStateMachine ==
    /\ CastlingInfoStateMachine
    /\ last.kind = "new" =>
          \A color \in PieceColor :
              /\ game.castling[color] = KingHasNotMoved(TRUE, TRUE)
              /\ can_castle_queenside(game.castling[color])
              /\ can_castle_kingside(game.castling[color])
    /\ last.kind \in {"move", "promote"} =>
          LET mover == last.before.turn
              before == last.before.castling[mover]
              after == game.castling[mover]
          IN  /\ game.castling[Not(mover)] = last.before.castling[Not(mover)]
              /\ before = KingHasMoved => after = KingHasMoved
              /\ LastLeftHome("King", 4) => after = KingHasMoved
              /\ before # KingHasMoved /\ LastLeftHome("Rook", 0) =>
                    after = KingHasNotMoved(FALSE, before.kingside_rook_has_not_moved)
              /\ before # KingHasMoved /\ LastLeftHome("Rook", 7) =>
                    after = KingHasNotMoved(before.queenside_rook_has_not_moved, FALSE)
              /\ ~LastLeftHome("King", 4) /\ ~LastLeftHome("Rook", 0)
                    /\ ~LastLeftHome("Rook", 7) => after = before

\* a corner rook has just left home beside an unmoved king that held both
\* rights, and only the right of its side is gone
C14_Witness ==
    /\ last.kind = "move"
    /\ last.before.castling[last.before.turn] = KingHasNotMoved(TRUE, TRUE)
    /\ \/ /\ LastLeftHome("Rook", 0)
          /\ game.castling[last.before.turn] = KingHasNotMoved(FALSE, TRUE)
       \/ /\ LastLeftHome("Rook", 7)
          /\ game.castling[last.before.turn] = KingHasNotMoved(TRUE, FALSE)
    /\ game.castling[game.turn] = last.before.castling[game.turn]

\* the search values compared: the three outcomes, the estimate of the board
\* of the game and the small estimates
Evaluations ==
    {OutcomeEval(Win("White")), OutcomeEval(Win("Black")), OutcomeEval(Draw)}
    \cup {EstimateEval(n) : n \in (-MaxEstimate .. MaxEstimate) \cup {Estimate(game, debug_assertions)}}

\* Cmp is total and transitive, a win of White is strictly greatest and a win
\* of Black strictly least, Draw stands where estimate 0 stands and estimates
\* are ordered as numbers
CmpIsTotalPreorder ==
    /\ \A a, b \in Evaluations : Cmp(a, b) = -Cmp(b, a)
    /\ \A a, b, c \in Evaluations :
          Cmp(a, b) <= 0 /\ Cmp(b, c) <= 0 => Cmp(a, c) <= 0
    /\ \A a \in Evaluations \ {EvaluationMAX} : Cmp(EvaluationMAX, a) = 1
    /\ \A a \in Evaluations \ {EvaluationMIN} : Cmp(EvaluationMIN, a) = -1
    /\ \A a \in Evaluations :
          /\ Cmp(OutcomeEval(Draw), a) = Cmp(EstimateEval(0), a)
          /\ Cmp(a, OutcomeEval(Draw)) = Cmp(a, EstimateEval(0))
    /\ \A a, b \in Evaluations :
          a.kind = "Estimate" /\ b.kind = "Estimate" => Cmp(a, b) = CmpInt(a.n, b.n)

\* two values compare Equal only when they are the same value
CmpIsAntisymmetric ==
    \A a, b \in Evaluations : Cmp(a, b) = 0 => a = b

\* C15: the comparison on search values is a total order: total, transitive
\* and antisymmetric, with Win(White) strictly greatest, Win(Black) strictly
\* least, Draw placed where estimate 0 is and estimates ordered numerically.
C15_CmpIsTotalOrder ==
    /\ CmpIsTotalPreorder
    /\ CmpIsAntisymmetric

\* the number of pieces of that colour and type on the board
CountOf(board, color, piece_type) ==
    Cardinality({p \in Positions : board[p] = Piece(color, piece_type)})

\* the material of a colour: Pawn 1, Knight 3, Bishop 3, Rook 5, Queen 9, King 0
Material(board, color) ==
    CountOf(board, color, "Pawn") + 3 * CountOf(board, color, "Knight")
    + 3 * CountOf(board, color, "Bishop") + 5 * CountOf(board, color, "Rook")
    + 9 * CountOf(board, color, "Queen")

\* the value minimax gives, with no depth left, to the game `child` a move
\* leads to is its material balance, or `child` is finished
LeafIsMaterial(child, child_moves, debug) ==
    StatusOf(child, child_moves) = NoOutcome =>
        EvaluationOf(child, child_moves, NoOutcome, 0, EvaluationMIN, EvaluationMAX, debug)
            = EstimateEval(Material(child.board, "White") - Material(child.board, "Black"))

\* C16: a position that is not finished, reached when the depth is exhausted,
\* is valued as White's material minus Black's, with Pawn 1, Knight 3,
\* Bishop 3, Rook 5, Queen 9, King 0; every child of the opening position
\* searched at depth 0 has value 0.
C16_LeafValueIsMaterialBalance ==
    chosen.kind = "Choice" /\ chosen.depth = 0 =>
        /\ \A i \in 1 .. Len(MoveList(game, offered)) :
              LET move == MoveList(game, offered)[i]
              IN  ApplyPanic(game, move, debug_assertions) = "none" =>
                     /\ LeafIsMaterial(Apply(game, move),
                                       Moves(Apply(game, move), debug_assertions),
                                       debug_assertions)
                     /\ last.kind = "new" =>
                           /\ Estimate(Apply(game, move), debug_assertions) = 0
                           /\ Status(Apply(game, move), debug_assertions) = NoOutcome
        /\ chosen.evaluation.kind = "Estimate" =>
              chosen.evaluation.n = Material(Apply(game, chosen.move).board, "White")
                                    - Material(Apply(game, chosen.move).board, "Black")
        /\ last.kind = "new" => chosen.evaluation = EstimateEval(0)

\* a search of depth 0 has answered with a material balance other than 0
C16_Witness ==
    /\ chosen.kind = "Choice"
    /\ chosen.depth = 0
    /\ chosen.evaluation.kind = "Estimate"
    /\ chosen.evaluation.n # 0
    /\ Status(Apply(game, chosen.move), debug_assertions) = NoOutcome

\* the last call was Game::move on a promotion, or Game::promote on a piece
\* that is no pawn, to a square that is no promotion, or with a piece type
\* outside PROMOTIONS
CalledOutsideRequires ==
    \/ /\ misuse.call = "Game::move"
       /\ IsPromotion(game, misuse.from, misuse.to)
    \/ /\ misuse.call = "Game::promote"
       /\ \/ game.board[misuse.from].piece # "Pawn"
          \/ ~IsPromotion(game, misuse.from, misuse.to)
          \/ misuse.piece_type \notin {"Queen", "Rook", "Bishop", "Knight"}

\* C17: Game::move called on a promotion, and Game::promote called with a
\* piece that is not a pawn, a destination that is not a promotion or a piece
\* type outside Queen/Rook/Bishop/Knight, always end in a fatal failure and
\* never yield a successor Game.
C17_MisuseAlwaysFails ==
    CalledOutsideRequires =>
        /\ misuse.result = "failed"
        /\ panic # "none"

\* with debug assertions compiled in, each of those calls fails; without
\* them, each returns a Game
MisuseFailsExactlyInDebugBuilds ==
    CalledOutsideRequires =>
        (misuse.result = "failed") = debug_assertions

\* C19: whenever a castling destination is offered, a rook of the mover's own
\* color stands on the corner of that side, so that the move puts that rook
\* next to the king and the castling assertion of Board::move does not fail.
C19_CastlingFindsItsRook ==
    panic = "none" =>
        ForAllOffered(LAMBDA from, to :
            IsCastlingShape(game.board, from, to) =>
                /\ game.board[CastlingRookFrom(from, to)] = Piece(game.turn, "Rook")
                /\ GameMovePanic(game, from, to, debug_assertions) = "none"
                /\ GameMove(game, from, to).board[CastlingRookTo(from, to)]
                      = Piece(game.turn, "Rook"))

\* castling is offered towards a corner that holds no rook of the mover
CastlingOfferedWithoutRook ==
    /\ panic = "none"
    /\ ExistsOffered(LAMBDA from, to :
          /\ IsCastlingShape(game.board, from, to)
          /\ game.board[CastlingRookFrom(from, to)] # Piece(game.turn, "Rook"))

\* C18: ai::choose called on a position in which the side to move has no
\* legal move, checkmate or stalemate, ends in a fatal failure for every
\* depth; it never returns a move.
C18_ChooseFailsOnFinishedGame ==
    /\ Mate(offered) /\ panic \in {"none", "choose"} =>
          /\ chosen = NoChoice
          /\ \A depth \in 0 .. MaxDepth :
                ChooseOf(game, offered, depth, debug_assertions) = NoBest
    /\ chosen.kind = "Choice" => ~Mate(offered)
    /\ panic = "choose" => chosen = NoChoice

\* ai::choose has failed on a checkmate
C18_Witness ==
    /\ panic = "choose"
    /\ Mate(offered)
    /\ Check(game)
    /\ chosen = NoChoice

\* ai::choose has failed on a stalemate
ChooseFailedOnStalemate ==
    /\ panic = "choose"
    /\ Mate(offered)
    /\ ~Check(game)

\* the square beside the pawn on `from`, on the file of `to`
BesideOf(from, to) == New(Rank(from), File(to))

\* the square of the edge file on the side towards which the king moves
EdgeOf(from, to) == New(Rank(from), IF File(to) < File(from) THEN 0 ELSE 7)

\* the square the king passes over
PassedOver(from, to) == New(Rank(from), (File(from) + File(to)) \div 2)

\* `after`, the board a transformation has made of `before` for from -> to,
\* shows the two special cases: the pawn beside a pawn that has moved to
\* another file onto an empty square is gone, and the rook on the edge file
\* stands on the square the king has passed over
AppliesSpecialCases(before, after, from, to) ==
    /\ (/\ before[from].piece = "Pawn"
        /\ File(from) # File(to)
        /\ before[to] = None
        /\ before[BesideOf(from, to)].piece = "Pawn")
          => after[BesideOf(from, to)] = None
    /\ (/\ before[from].piece = "King"
        /\ AbsDiff(File(from), File(to)) = 2
        /\ before[EdgeOf(from, to)].piece = "Rook")
          => /\ after[EdgeOf(from, to)] = None
             /\ after[PassedOver(from, to)] = before[EdgeOf(from, to)]

\* C20: on every call the game makes of them, Board::move and
\* Board::promote apply the two special cases: when a pawn moves to another
\* file onto a square that held no piece, the pawn on (departure rank,
\* destination file) is removed; when a king moves two files, the rook on
\* the edge file of that side is relocated to the square the king passed
\* over. Board::promote is called for the promotions Game::moves offers,
\* none of which is a pawn stepping aside onto an empty square or a move of
\* a king, so that neither case arises in it.
C20_BothApplySpecialCases ==
    panic = "none" =>
        ForAllOffered(LAMBDA from, to :
            IF IsPromotion(game, from, to)
            THEN /\ ~IsEnPassantShape(game.board, from, to)
                 /\ ~IsCastlingShape(game.board, from, to)
                 /\ \A k \in 1 .. Len(PROMOTIONS) :
                       AppliesSpecialCases(game.board,
                                           BoardPromote(game.board, from, to, PROMOTIONS[k]),
                                           from, to)
            ELSE BoardMovePanic(game.board, from, to, debug_assertions) = "none"
                    => AppliesSpecialCases(game.board,
                                           BoardMove(game.board, from, to), from, to))

\* a pawn has just moved to another file onto an empty square, and the pawn
\* that stood beside it is gone
C20_Witness ==
    /\ panic = "none"
    /\ last.kind = "move"
    /\ last.before.board[last.from].piece = "Pawn"
    /\ File(last.from) # File(last.to)
    /\ last.before.board[last.to] = None
    /\ last.before.board[BesideOf(last.from, last.to)]
          = Piece(Not(last.before.turn), "Pawn")
    /\ game.board = BoardMove(last.before.board, last.from, last.to)
    /\ game.board[BesideOf(last.from, last.to)] = None

\* the square `ranks` ahead and `files` aside of the pawn on `from`, or NoPos
Ahead(from, ranks, files) ==
    LET rank == Rank(from) + (IF game.board[from].color = "White" THEN ranks ELSE -ranks)
        file == File(from) + files
    IN  IF rank \in 0 .. 7 /\ file \in 0 .. 7 THEN New(rank, file) ELSE NoPos

\* the pushes of the pawn on `from`: one step if vacant, two from the starting
\* rank if both squares are vacant
PawnPushes(from) ==
    {to \in {Ahead(from, 1, 0)} \ {NoPos} : game.board[to] = None}
    \cup {to \in {Ahead(from, 2, 0)} \ {NoPos} :
             /\ Rank(from) = (IF game.board[from].color = "White" THEN 1 ELSE 6)
             /\ game.board[Ahead(from, 1, 0)] = None
             /\ game.board[to] = None}

\* the marker allows a capture when it names `square` and an enemy piece is there
MarkerOn(from, square) ==
    /\ game.just_advanced_two # NoPos
    /\ game.just_advanced_two = square
    /\ game.board[square].color = Not(game.board[from].color)

\* the captures as stated: the marker is compared with the target square
PawnCapturesOnMarker(from) ==
    {to \in {Ahead(from, 1, -1), Ahead(from, 1, 1)} \ {NoPos} :
        \/ game.board[to].color = Not(game.board[from].color)
        \/ MarkerOn(from, to)}

\* the captures of the code: the marker is compared with the square beside
\* the pawn, on the file of the target
PawnCapturesBesideMarker(from) ==
    {to \in {Ahead(from, 1, -1), Ahead(from, 1, 1)} \ {NoPos} :
        \/ game.board[to].color = Not(game.board[from].color)
        \/ MarkerOn(from, New(Rank(from), File(to)))}

\* what Game::moves lists for the pawn on `from` is what the check-safety
\* filter leaves of `candidates`
PawnOfferIsFiltered(i, candidates) ==
    LET from == offered[i][1]
        king_position == PositionOf(game.board, Piece(game.turn, "King"))
    IN  {offered[i][2][j] : j \in 1 .. Len(offered[i][2])}
            = {to \in candidates :
                  DoesNotCauseCheck(game, from, to, king_position, debug_assertions)}

\* C21 as stated: a pawn's candidate destinations before the check-safety
\* filter are the square ahead if vacant, the square two ahead from the
\* starting rank if both are vacant, and each forward-diagonal square that
\* holds an enemy piece or equals the tracked en-passant square whose pawn is
\* an enemy piece.
C21_PawnCandidatesTargetIsMarker ==
    panic = "none" =>
        \A i \in 1 .. Len(offered) :
            game.board[offered[i][1]].piece = "Pawn" =>
                PawnOfferIsFiltered(i, PawnPushes(offered[i][1])
                                       \cup PawnCapturesOnMarker(offered[i][1]))

\* C21 amended: the same, except that a vacant forward-diagonal square is a
\* candidate when the tracked square is the square beside the pawn on the
\* file of the target (departure rank, destination file) and an enemy piece
\* stands on it.
C21_PawnCandidates ==
    panic = "none" =>
        \A i \in 1 .. Len(offered) :
            game.board[offered[i][1]].piece = "Pawn" =>
                PawnOfferIsFiltered(i, PawnPushes(offered[i][1])
                                       \cup PawnCapturesBesideMarker(offered[i][1]))

\* a pawn is offered the vacant square diagonally ahead because the tracked
\* square is the one beside it
C21_Witness ==
    /\ panic = "none"
    /\ \E i \in 1 .. Len(offered) : \E j \in 1 .. Len(offered[i][2]) :
          /\ game.board[offered[i][1]].piece = "Pawn"
          /\ File(offered[i][2][j]) # File(offered[i][1])
          /\ game.board[offered[i][2][j]] = None
          /\ game.just_advanced_two = New(Rank(offered[i][1]), File(offered[i][2][j]))
          /\ offered[i][2][j] \in PawnCapturesBesideMarker(offered[i][1])
          /\ offered[i][2][j] \notin PawnCapturesOnMarker(offered[i][1])

\* the moves enumerated for the j-th destination of the i-th offered piece:
\* the four promotions, or the one plain move
MovesFor(i, j) ==
    IF IsPromotion(game, offered[i][1], offered[i][2][j])
    THEN << PromoteOf(offered[i][1], offered[i][2][j], "Queen"),
            PromoteOf(offered[i][1], offered[i][2][j], "Rook"),
            PromoteOf(offered[i][1], offered[i][2][j], "Bishop"),
            PromoteOf(offered[i][1], offered[i][2][j], "Knight") >>
    ELSE << MoveOf(offered[i][1], offered[i][2][j]) >>

\* the destinations offered, as pairs <<i, j>> of indices
OfferedIndices ==
    {pair \in (1 .. Len(offered)) \X (1 .. 32) : pair[2] <= Len(offered[pair[1]][2])}

\* how many moves are enumerated before those of the j-th destination of the
\* i-th piece
EnumeratedBefore(i, j) ==
    Cardinality({pair \in OfferedIndices : pair[1] < i \/ (pair[1] = i /\ pair[2] < j)})
    + 3 * Cardinality({pair \in OfferedIndices :
                          /\ pair[1] < i \/ (pair[1] = i /\ pair[2] < j)
                          /\ IsPromotion(game, offered[pair[1]][1],
                                         offered[pair[1]][2][pair[2]])})

\* `list` holds the moves piece by piece in ascending square index, each
\* piece's destinations in the order generated, each promotion as Queen, Rook,
\* Bishop, Knight
EnumeratedInOrder(list) ==
    /\ \A i, k \in 1 .. Len(offered) : i < k => offered[i][1] < offered[k][1]
    /\ Len(list) = EnumeratedBefore(Len(offered) + 1, 1)
    /\ \A pair \in OfferedIndices :
          \A k \in 1 .. Len(MovesFor(pair[1], pair[2])) :
              list[EnumeratedBefore(pair[1], pair[2]) + k] = MovesFor(pair[1], pair[2])[k]

\* the values plain minimax gives the moves of `list` at the root
RootValues(list, depth, debug) ==
    [i \in 1 .. Len(list) |->
        PlainEvaluation(Apply(game, list[i]), Moves(Apply(game, list[i]), debug),
                        depth, debug)]

\* `move` is the first move of `list` whose value is the best for `turn`
FirstOfTheBest(turn, list, values, move) ==
    \E i \in 1 .. Len(list) :
        /\ list[i] = move
        /\ \A j \in 1 .. Len(list) :
              IF turn = "White" THEN Cmp(values[j], values[i]) <= 0
              ELSE Cmp(values[j], values[i]) >= 0
        /\ \A j \in 1 .. i - 1 : Cmp(values[j], values[i]) # 0

\* C22: the search enumerates the moves piece by piece in board iteration
\* order, then in the order the destinations were generated, then a promotion
\* as Promote Queen, Rook, Bishop, Knight and no plain move; among the moves
\* whose value equals the best value the root returns the first in this order.
C22_EnumerationOrderAndTies ==
    chosen.kind = "Choice" =>
        /\ EnumeratedInOrder(MoveList(game, offered))
        /\ SearchIsSafe(game, chosen.depth, debug_assertions) =>
              FirstOfTheBest(game.turn, MoveList(game, offered),
                             RootValues(MoveList(game, offered), chosen.depth,
                                        debug_assertions),
                             chosen.move)

\* the search has answered where a later move is as good as the one returned
C22_Witness ==
    /\ chosen.kind = "Choice"
    /\ chosen.depth >= 1
    /\ SearchIsSafe(game, chosen.depth, debug_assertions)
    /\ \E i, j \in 1 .. Len(MoveList(game, offered)) :
          /\ i < j
          /\ MoveList(game, offered)[i] = chosen.move
          /\ Cmp(RootValues(MoveList(game, offered), chosen.depth, debug_assertions)[j],
                 chosen.evaluation) = 0

Max2(a, b) == IF a >= b THEN a ELSE b

\* how many plies below the game `g` the deepest game lies that the
\* alpha-beta search of the moves of `list` from the i-th on gives a value
RECURSIVE SearchReach(_, _, _, _, _, _, _, _)

SearchReachBelow(depth, alpha, beta, debug, child, child_moves) ==
    IF Descends(StatusOf(child, child_moves), depth)
    THEN 1 + SearchReach(child, MoveList(child, child_moves), 1, depth - 1,
                         alpha, beta, NoBest, debug)
    ELSE 1

SearchReachAt(g, list, i, depth, debug, below, step) ==
    IF step.stop THEN below
    ELSE Max2(below, SearchReach(g, list, i + 1, depth, step.alpha, step.beta,
                                 step.best, debug))

SearchReach(g, list, i, depth, alpha, beta, best, debug) ==
    IF i > Len(list) THEN 0
    ELSE SearchReachAt(g, list, i, depth, debug,
                       SearchReachBelow(depth, alpha, beta, debug, Apply(g, list[i]),
                                        Moves(Apply(g, list[i]), debug)),
                       MinimaxStep(g, list[i], depth, alpha, beta, best, debug))

\* the plies below the game that the search ai::choose has answered reached
ChosenReach ==
    SearchReach(game, MoveList(game, offered), 1, chosen.depth,
                EvaluationMIN, EvaluationMAX, NoBest, debug_assertions)

\* following the first move of every list, the game is not finished within
\* `plies` plies
RECURSIVE FirstLineOpen(_, _, _)
FirstLineOpen(g, plies, debug) ==
    \/ plies = 0
    \/ /\ Status(g, debug) = NoOutcome
       /\ Status(Apply(g, MoveList(g, Moves(g, debug))[1]), debug) = NoOutcome
       /\ FirstLineOpen(Apply(g, MoveList(g, Moves(g, debug))[1]), plies - 1, debug)

\* the reach of a search of depth `depth`: one ply at least, depth + 1 plies
\* at most, and depth + 1 plies exactly when `open`
ReachIsWithin(reach, depth, open) ==
    /\ reach >= 1
    /\ reach <= depth + 1
    /\ open => reach = depth + 1

\* C23 as stated: for ai::choose(game, d) the search terminates and the
\* deepest position it evaluates lies exactly d plies below the root.
C23_ReachIsDepth ==
    chosen.kind = "Choice" /\ SearchIsSafe(game, chosen.depth, debug_assertions) =>
        ChosenReach = chosen.depth

\* C23 amended: for ai::choose(game, d) the search terminates, no position it
\* evaluates lies more than d + 1 plies below the root, and the deepest lies
\* exactly d + 1 plies below it when the line of first moves is not finished
\* earlier: minimax is entered d + 1 deep, the call of choose and d calls of
\* itself, and values the games one move below its last call.
C23_ReachIsDepthPlusOne ==
    chosen.kind = "Choice" /\ SearchIsSafe(game, chosen.depth, debug_assertions) =>
        ReachIsWithin(ChosenReach, chosen.depth,
                      FirstLineOpen(game, chosen.depth, debug_assertions))

\* a search of depth one or more has valued games one ply beyond its depth
C23_Witness ==
    /\ chosen.kind = "Choice"
    /\ chosen.depth >= 1
    /\ SearchIsSafe(game, chosen.depth, debug_assertions)
    /\ FirstLineOpen(game, chosen.depth, debug_assertions)
    /\ ChosenReach = chosen.depth + 1

\* every invocation of minimax in the search of `g` has a move to iterate over
\* and leaves its loop with a best move
RECURSIVE InvocationsFind(_, _, _, _, _, _)
RECURSIVE VisitsFind(_, _, _, _, _, _, _, _)

VisitFinds(depth, alpha, beta, debug, child, child_moves) ==
    Descends(StatusOf(child, child_moves), depth) =>
        InvocationsFind(child, MoveList(child, child_moves), depth - 1, alpha, beta, debug)

VisitsFindAt(g, list, i, depth, alpha, beta, debug, child, step) ==
    /\ step.best # NoBest
    /\ VisitFinds(depth, alpha, beta, debug, child, Moves(child, debug))
    /\ \/ step.stop
       \/ VisitsFind(g, list, i + 1, depth, step.alpha, step.beta, step.best, debug)

VisitsFind(g, list, i, depth, alpha, beta, best, debug) ==
    \/ i > Len(list) /\ best # NoBest
    \/ /\ i <= Len(list)
       /\ VisitsFindAt(g, list, i, depth, alpha, beta, debug, Apply(g, list[i]),
                       MinimaxStep(g, list[i], depth, alpha, beta, best, debug))

InvocationsFind(g, list, depth, alpha, beta, debug) ==
    /\ list # << >>
    /\ VisitsFind(g, list, 1, depth, alpha, beta, NoBest, debug)

\* C24: when ai::choose is called on a game that is not finished, minimax is
\* never invoked on a position without a legal move and every invocation has
\* evaluated a move before it leaves its loop, so the expectation
\* "minimax precondition" does not fail.
C24_MinimaxPreconditionHolds ==
    /\ panic = "choose" => Mate(offered)
    /\ chosen.kind = "Choice" =>
          /\ ~Mate(offered)
          /\ SearchIsSafe(game, chosen.depth, debug_assertions) =>
                InvocationsFind(game, MoveList(game, offered), chosen.depth,
                                EvaluationMIN, EvaluationMAX, debug_assertions)

\* a search with depth left has answered where one of the moves finishes the
\* game, so that minimax was not invoked on the game that move leads to
C24_Witness ==
    /\ chosen.kind = "Choice"
    /\ chosen.depth >= 1
    /\ SearchIsSafe(game, chosen.depth, debug_assertions)
    /\ \E i \in 1 .. Len(MoveList(game, offered)) :
          Status(Apply(game, MoveList(game, offered)[i]), debug_assertions) # NoOutcome
    /\ InvocationsFind(game, MoveList(game, offered), chosen.depth,
                       EvaluationMIN, EvaluationMAX, debug_assertions)


----------------------------------------------------------------------------
(* C25: what a move changes on the board                                   *)

ChangedSquares(before, after) == {p \in Positions : before[p] # after[p]}

ColorCount(board, color) ==
    Cardinality({p \in Positions : board[p] # None /\ board[p].color = color})

\* the squares Board::move writes to when it moves from -> to on `board`
MoveSquares(board, from, to) ==
    {from, to}
    \cup (IF IsEnPassantShape(board, from, to) THEN {New(Rank(from), File(to))} ELSE {})
    \cup (IF IsCastlingShape(board, from, to)
          THEN {CastlingRookFrom(from, to), CastlingRookTo(from, to)}
          ELSE {})

\* the boards before and after differ on `squares` at most, the mover has as
\* many pieces as before and the opponent one less exactly on a capture
FrameKept(before, after, mover, squares, capture) ==
    /\ ChangedSquares(before, after) \subseteq squares
    /\ ColorCount(after, mover) = ColorCount(before, mover)
    /\ ColorCount(after, Not(mover)) =
          ColorCount(before, Not(mover)) - (IF capture THEN 1 ELSE 0)

MoveKeepsFrame(before, after, from, to) ==
    FrameKept(before.board, after.board, before.board[from].color,
              MoveSquares(before.board, from, to),
              before.board[to] # None \/ IsEnPassantShape(before.board, from, to))

PromoteKeepsFrame(before, after, from, to) ==
    FrameKept(before.board, after.board, before.board[from].color,
              {from, to}, before.board[to] # None)

\* C25: Game::move and Game::promote change only the departure and the
\* destination squares, plus the square of the pawn taken en passant and the
\* two squares of the rook when castling; the mover keeps its number of
\* pieces and the opponent loses exactly one piece on a capture and none
\* otherwise.
C25_MoveFrame ==
    /\ last.kind = "move" => MoveKeepsFrame(last.before, game, last.from, last.to)
    /\ last.kind = "promote" => PromoteKeepsFrame(last.before, game, last.from, last.to)
    /\ panic = "none" =>
          ForAllOffered(LAMBDA from, to :
              IF IsPromotion(game, from, to)
              THEN \A k \in 1 .. Len(PROMOTIONS) :
                      PromoteKeepsFrame(game, GamePromote(game, from, to, PROMOTIONS[k]), from, to)
              ELSE GameMovePanic(game, from, to, debug_assertions) = "none"
                      => MoveKeepsFrame(game, GameMove(game, from, to), from, to))

\* a pawn has just been taken en passant: three squares have changed
C25_Witness ==
    /\ last.kind = "move"
    /\ IsEnPassantShape(last.before.board, last.from, last.to)
    /\ ChangedSquares(last.before.board, game.board)
          = {last.from, last.to, New(Rank(last.from), File(last.to))}
    /\ ColorCount(game.board, game.turn) = ColorCount(last.before.board, game.turn) - 1


----------------------------------------------------------------------------
(* C26: the en passant marker and the pawn it stands for                   *)

\* C26: whenever just_advanced_two is set, its square holds a pawn of the
\* side that has just moved; every offered move that Board::move treats as en
\* passant (a pawn changing file onto an empty square) removes an enemy pawn
\* from the departure rank on the destination file; neither the expectation
\* on the marker in Game::moves nor the en passant assertion of Board::move
\* fails.
C26_MarkerHoldsEnemyPawn ==
    /\ game.just_advanced_two # NoPos =>
          game.board[game.just_advanced_two] = Piece(Not(game.turn), "Pawn")
    /\ panic = "none" =>
          ForAllOffered(LAMBDA from, to :
              IsEnPassantShape(game.board, from, to) =>
                 /\ game.board[New(Rank(from), File(to))] = Piece(Not(game.turn), "Pawn")
                 /\ BoardMovePanic(game.board, from, to, TRUE) = "none")
    /\ panic \notin {"Game::just_advanced_two invariant", "en passant assertion"}

\* a pawn has just advanced two squares next to an enemy pawn, which is
\* offered the capture en passant
C26_Witness ==
    /\ panic = "none"
    /\ game.just_advanced_two # NoPos
    /\ last.kind = "move"
    /\ last.to = game.just_advanced_two
    /\ ExistsOffered(LAMBDA from, to :
          /\ IsEnPassantShape(game.board, from, to)
          /\ New(Rank(from), File(to)) = game.just_advanced_two)


----------------------------------------------------------------------------
(* C27: no pawn stands on its last rank                                    *)

LastRank(color) == IF color = "White" THEN 7 ELSE 0

PawnsOnLastRank(board) ==
    {p \in Positions : board[p].piece = "Pawn" /\ Rank(p) = LastRank(board[p].color)}

\* the squares about which Game::moves and Game::check ask Game::attacks for
\* the side whose king stands on `king`: the square of the king, the squares
\* next to it and the squares the king passes or reaches when castling
AskedSquares(king) ==
    {target \in Positions :
        /\ AbsDiff(Rank(target), Rank(king)) <= 1
        /\ AbsDiff(File(target), File(king)) <= 2
        /\ AbsDiff(File(target), File(king)) = 2 => Rank(target) = Rank(king)}

\* C27: no White pawn stands on rank 7 and no Black pawn on rank 0; the step
\* forward of every pawn is a square of the board, so that neither
\* Game::moves nor Game::attacks, asked about the squares of and around a
\* king, fails on a pawn.
C27_NoPawnOnLastRank ==
    /\ PawnsOnLastRank(game.board) = {}
    /\ \A p \in Positions :
          game.board[p].piece = "Pawn" => PawnStep(p, game.board[p].color) \in Positions
    /\ panic # "pawn is never on last rank"
    /\ MovesPanic(game, debug_assertions) # "pawn is never on last rank"
    /\ \A color \in PieceColor :
          \A target \in AskedSquares(PositionOf(game.board, Piece(color, "King"))) :
              AttacksPanic(game, Not(color), target) = "none"

\* a pawn has just stepped on its last rank, where it was replaced
C27_Witness ==
    /\ last.kind = "promote"
    /\ Rank(last.to) = LastRank(last.before.turn)
    /\ last.before.board[last.from] = Piece(last.before.turn, "Pawn")
    /\ game.board[last.to] = Piece(last.before.turn, last.piece_type)
    /\ last.piece_type # "Pawn"


----------------------------------------------------------------------------
(* C28: a castling right keeps the king at home                            *)

HoldsRight(g, color) ==
    can_castle_queenside(g.castling[color]) \/ can_castle_kingside(g.castling[color])

KingHome(color) == New(piece_starting_rank(color), 4)

\* C28: a colour that still holds a castling right has its king on file 4 of
\* its starting rank, so that the squares two and three files to the left of
\* the king and two files to its right are squares of the board, and the
\* expectations "castling" of Game::moves do not fail.
C28_RightKeepsKingHome ==
    /\ \A color \in PieceColor :
          HoldsRight(game, color) =>
             /\ game.board[KingHome(color)] = Piece(color, "King")
             /\ PositionOf(game.board, Piece(color, "King")) = KingHome(color)
             /\ Left(Left(KingHome(color))) \in Positions
             /\ Left(Left(Left(KingHome(color)))) \in Positions
             /\ Right(Right(KingHome(color))) \in Positions
             /\ ~CastlingIsOffBoard(game, KingHome(color))
    /\ panic # "castling"
    /\ MovesPanic(game, debug_assertions) # "castling"

\* one side has castled and holds no right any more, its king away from
\* home, while the other still holds a right
C28_Witness ==
    /\ last.kind = "move"
    /\ IsCastlingShape(last.before.board, last.from, last.to)
    /\ HoldsRight(last.before, last.before.turn)
    /\ ~HoldsRight(game, last.before.turn)
    /\ game.board[KingHome(last.before.turn)] = None
    /\ HoldsRight(game, game.turn)


----------------------------------------------------------------------------
(* C29: the walks of Game::moves and Game::attacks come to an end          *)

\* the loop of the closure saturate, iteration by iteration: how the walk from
\* `at` in the direction `dir` ends and after how many squares
RECURSIVE SaturateWalk(_, _, _, _)
SaturateWalk(board, at, dir, steps) ==
    IF Step(at, dir) = NoPos
    THEN [end |-> "edge", steps |-> steps]
    ELSE IF board[Step(at, dir)] # None
    THEN [end |-> "occupied", steps |-> steps + 1]
    ELSE IF steps > MaxWalk
    THEN [end |-> "unending", steps |-> steps]
    ELSE SaturateWalk(board, Step(at, dir), dir, steps + 1)

\* mutant: the pieces that slide walk towards every target
SlidingCallsUnguarded(board, color, target) ==
    {position \in Positions :
        /\ board[position].color = color
        /\ board[position].piece \in {"Bishop", "Rook", "Queen"}}

\* the pieces of `color` for which Game::attacks may call sliding_attacks
\* towards `target`
SlidingCalls(board, color, target) ==
    {position \in Positions :
        /\ board[position].color = color
        /\ LET dr == AbsDiff(Rank(position), Rank(target))
               df == AbsDiff(File(position), File(target))
               straight == Rank(position) = Rank(target) \/ File(position) = File(target)
           IN  CASE board[position].piece = "Bishop" -> dr = df
                 [] board[position].piece = "Rook" -> straight
                 [] board[position].piece = "Queen" -> dr = df \/ straight
                 [] OTHER -> FALSE}

\* `target` is the square of `position` or lies a number of steps from it
\* along a rank, a file or a diagonal
Aligned(position, target) ==
    \E d_rank \in {-1, 0, 1} : \E d_file \in {-1, 0, 1} : \E n \in 0 .. MaxWalk :
        /\ Rank(target) = Rank(position) + n * d_rank
        /\ File(target) = File(position) + n * d_file

\* the walk of sliding_attacks from `position` towards `target` ends on the
\* target or on a blocker, in both builds, having made squares of the board
\* only
SlidingWalkEnds(board, position, target) ==
    \A debug \in BOOLEAN :
        /\ SlidingEnd(board, position, target, debug).end \in {"target", "blocker"}
        /\ SlidingEnd(board, position, target, debug).steps <= MaxWalk

\* every call of sliding_attacks that Game::attacks makes for `color` and
\* `target` is for aligned squares and comes to an end on the board
AttacksEnds(board, color, target) ==
    \A position \in SlidingCalls(board, color, target) :
        /\ Aligned(position, target)
        /\ SlidingWalkEnds(board, position, target)

SlidingDirs(piece_type) ==
    CASE piece_type = "Bishop" -> BishopDirs
      [] piece_type = "Rook" -> RookDirs
      [] piece_type = "Queen" -> QueenDirs
      [] OTHER -> << >>

\* every walk of saturate in Game::moves for the side to move comes to an end
SaturateEnds(g) ==
    \A from \in Positions :
        g.board[from].color = g.turn =>
            \A d \in 1 .. Len(SlidingDirs(g.board[from].piece)) :
                /\ SaturateWalk(g.board, from, SlidingDirs(g.board[from].piece)[d], 0).end
                      \in {"edge", "occupied"}
                /\ SaturateWalk(g.board, from, SlidingDirs(g.board[from].piece)[d], 0).steps
                      <= MaxWalk

\* which function of game.rs calls which: <<caller, callee>>
CallGraph ==
    { <<"status", "mate">>, <<"status", "check">>, <<"mate", "moves">>,
      <<"check", "attacks">>, <<"moves", "is_promotion">>, <<"moves", "promote">>,
      <<"moves", "move">>, <<"moves", "attacks">>, <<"move", "is_promotion">>,
      <<"promote", "is_promotion">>, <<"attacks", "sliding_attacks">> }

\* the functions called, directly or not, from those of `callers`
RECURSIVE Callees(_)
Callees(callers) ==
    LET more == callers \cup {call[2] : call \in {c \in CallGraph : c[1] \in callers}}
    IN  IF more = callers THEN callers ELSE Callees(more)

\* the game on which does_not_cause_check asks for the attacks after from -> to
AfterMove(g, from, to, debug) ==
    IF debug /\ IsPromotion(g, from, to)
    THEN GamePromote(g, from, to, "Queen")
    ELSE GameMove(g, from, to)

\* C29: Game::moves, Game::check and Game::status come to an end: the
\* computation of the attacked squares never calls the generation of the
\* moves, nor itself, every walk
\* of saturate ends at the edge of the board or on the first occupied square
\* within seven squares, and sliding_attacks is called for aligned squares
\* only and ends on the target or on a blocker within seven iterations,
\* in both builds, never making a square off the board, for the squares of
\* and around the kings on
\* the position itself and for the king on the positions that the safety
\* filter looks at.
C29_WalksEnd ==
    /\ Callees({"attacks"}) = {"attacks", "sliding_attacks"}
    /\ \A call \in CallGraph : call[2] \notin {"moves", "mate", "status", "check"}
                                  \/ call[1] \in {"mate", "status"}
    /\ SaturateEnds(game)
    /\ \A color \in PieceColor :
          \A target \in AskedSquares(PositionOf(game.board, Piece(color, "King"))) :
              AttacksEnds(game.board, Not(color), target)
    /\ panic = "none" =>
          ForAllOffered(LAMBDA from, to :
              ~IsCastlingShape(game.board, from, to) =>
                  AttacksEnds(AfterMove(game, from, to, debug_assertions).board,
                              Not(game.turn),
                              IF game.board[from].piece = "King"
                              THEN to
                              ELSE PositionOf(game.board, Piece(game.turn, "King"))))

\* the side to move is in check from a piece that has slid over two squares
\* or more, while another walk of that side has met a blocker
C29_Witness ==
    /\ panic = "none"
    /\ Check(game)
    /\ \E position \in SlidingCalls(game.board, Not(game.turn),
                                    PositionOf(game.board, Piece(game.turn, "King"))) :
          /\ SlidingEnd(game.board, position,
                        PositionOf(game.board, Piece(game.turn, "King")),
                        debug_assertions).end = "target"
          /\ SlidingEnd(game.board, position,
                        PositionOf(game.board, Piece(game.turn, "King")),
                        debug_assertions).steps >= 3
    /\ \E target \in AskedSquares(PositionOf(game.board, Piece(game.turn, "King"))) :
          \E position \in SlidingCalls(game.board, Not(game.turn), target) :
              SlidingEnd(game.board, position, target, debug_assertions).end = "blocker"


----------------------------------------------------------------------------
(* C30: the material of an army fits the i8 of estimate                    *)

\* the armies of Game::new()
ArmyNew == ArmiesOf(BoardNew)

\* the pieces of an army
ArmyCount(counts) ==
    counts["Pawn"] + counts["Knight"] + counts["Bishop"] + counts["Rook"]
    + counts["Queen"] + counts["King"]

\* the pieces of one type an army holds beyond those it started with
Excess(counts, start, piece_type) ==
    IF counts[piece_type] > start[piece_type]
    THEN counts[piece_type] - start[piece_type]
    ELSE 0

\* the pieces on the board, of both colours
ArmyTotal(counts) ==
    ArmyCount(counts["White"]) + ArmyCount(counts["Black"])

\* the pieces of an army beyond those of its type at the start: pawns that
\* have been promoted and are still on the board
ArmyExcess(counts, start) ==
    Excess(counts, start, "Knight") + Excess(counts, start, "Bishop")
    + Excess(counts, start, "Rook") + Excess(counts, start, "Queen")

\* the armies, whatever the squares: once the play has come to its end,
\* pieces are taken and pawns promoted in any order
ArmyStep ==
    /\ panic = "none"
    /\ Mate(offered)
    /\ UNCHANGED <<game, offered, selected_tile, selected_promotion, debug_assertions,
                   panic, line, ply, free, last, has_moved, events, chosen, misuse>>

\* Board::move on the armies: a piece of `color`, never the king, is taken
\* from the board, MaxTaken pieces at most in all
ArmyCapture(color, piece_type) ==
    /\ ArmyStep
    /\ ArmyTotal(ArmyNew) - ArmyTotal(army) < MaxTaken
    /\ piece_type # "King"
    /\ army[color][piece_type] > 0
    /\ army' = [army EXCEPT ![color][piece_type] = @ - 1]

\* Board::promote on the armies: a pawn of `color` leaves the board and a
\* piece of `piece_type` is put on the square it moves to, in the place of
\* whatever stands there: nothing ("None"), or a piece `taken` of the other
\* colour, which leaves the board in the same call. A pawn is promoted while
\* the other colour holds MaxPromoted promoted pieces at most
ArmyPromote(color, piece_type, taken) ==
    /\ ArmyStep
    /\ army[color]["Pawn"] > 0
    /\ ArmyExcess(army[Not(color)], ArmyNew[Not(color)]) <= MaxPromoted
    /\ IF taken = "None"
       THEN army' = [army EXCEPT ![color]["Pawn"] = @ - 1,
                                 ![color][piece_type] = @ + 1]
       ELSE /\ taken # "King"
            /\ army[Not(color)][taken] > 0
            /\ ArmyTotal(ArmyNew) - ArmyTotal(army) < MaxTaken
            /\ army' = [army EXCEPT ![color]["Pawn"] = @ - 1,
                                    ![color][piece_type] = @ + 1,
                                    ![Not(color)][taken] = @ - 1]

NextArmy ==
    \/ Next
    \/ \E color \in PieceColor : \E piece_type \in PieceType :
            ArmyCapture(color, piece_type)
    \/ \E color \in PieceColor : \E k \in 1 .. Len(PROMOTIONS) :
            \E taken \in PieceType \cup {"None"} :
                ArmyPromote(color, PROMOTIONS[k], taken)

SpecArmy == Init /\ [][NextArmy]_vars

\* the sum of the values of an army, in the integers
ArmyMaterial(counts) ==
    counts["Pawn"] * Value("Pawn") + counts["Knight"] * Value("Knight")
    + counts["Bishop"] * Value("Bishop") + counts["Rook"] * Value("Rook")
    + counts["Queen"] * Value("Queen") + counts["King"] * Value("King")

\* C30: the sum of the values of the pieces of each colour, and the
\* difference White minus Black that estimate returns, lie within -128..127,
\* so that the i8 sums and the i8 subtraction of estimate do not overflow: on
\* the board of the game they are the sums and the difference in the
\* integers, in either build, and estimate does not fail in the debug build.
C30_MaterialFitsI8 ==
    /\ \A color \in PieceColor : ArmyMaterial(army[color]) \in 0 .. 127
    /\ ArmyMaterial(army["White"]) - ArmyMaterial(army["Black"]) \in I8
    /\ \A color \in PieceColor : \A other \in 0 .. 127 :
          /\ ArmyMaterial(army[color]) - other \in I8
          /\ other - ArmyMaterial(army[color]) \in I8
    /\ army = ArmiesOf(game.board) =>
          /\ \A color \in PieceColor :
                SumValues(game.board, Iter(game.board, color), 0, debug_assertions)
                   = ArmyMaterial(army[color])
          /\ Estimate(game, debug_assertions)
                = ArmyMaterial(army["White"]) - ArmyMaterial(army["Black"])
          /\ EstimatePanic(game, debug_assertions) = "none"

\* the eight pawns of a colour have become queens next to its queen, and
\* none of its pieces has been taken
C30_Witness ==
    \E color \in PieceColor :
        /\ army[color]["Queen"] = 9
        /\ army[color]["Pawn"] = 0
        /\ ArmyMaterial(army[color]) = 103

====
